---------------------------- MODULE Spec2Model ----------------------------
(***************************************************************************)
(* Browser point-of-sale demo: the Detection module (model loading,        *)
(* detectObjects, scanProducts, the continuous-detection poller) and the   *)
(* App coordinator that drives it.  One step of the model is one task of   *)
(* the JavaScript event loop (a call made by a caller, a timer expiry, the *)
(* resumption of an awaited promise); a continuation that only waits for a *)
(* microtask is marked "micro" and runs before any timer or promise.       *)
(***************************************************************************)
EXTENDS Integers, FiniteSets, Sequences, TLC

\* ------------------------------------------------------------- bounds
MaxLoops == 2        \* detectFrame loops alive at the same time
MaxLoads == 2        \* tf.loadLayersModel requests in flight
MaxScans == 1        \* scanProducts classifications in flight, per caller
MaxApiDetects == 1   \* direct detectObjects classifications in flight
ProbScale == 10      \* probabilities are multiples of 1/ProbScale
MaxDim == 4          \* videoWidth and videoHeight range over 0..MaxDim
MaxPad == 1          \* whitespace characters around a label, per side
MaxAdds == 4         \* Cart.addItem calls in one run
MaxScanned == 2      \* Stats.incrementItemsScanned calls in one run
MaxOrders == 2       \* Stats.incrementOrders calls in one run
MaxHeld == 2         \* Cart.addItem calls whose result the caller keeps
MaxRevenue == 230    \* the revenue one run adds up to
MaxStreams == 4      \* media streams getUserMedia hands out in one run

LoopIds == 1..MaxLoops
NoTimer == 0
LoadOwners == {"api", "app", "scanApi", "scanApp"}
ScanCallers == {"api", "app"}
Callbacks == {"cb1", "cb2"}
\* How a classification ends: it fails, it detects nothing, or it detects one
\* product of the catalogue, named by its nameEn.
Outcomes == {"error", "none", "Coffee", "Water"}
Listeners == {"cam", "app"}
\* What a caller hands to detectObjects as its videoElement.
FrameSources == {"null", "video"}

VARIABLES
    \* Detection module (src/unnamed/part_000)
    model, modelLoading, modelLoaded,
    continuousDetectionId, continuousDetectionCallback,
    loops,          \* the detectFrame closures: where each one is
    loads,          \* tf.loadLayersModel promises pending, per awaiting caller
    scanning,       \* scanProducts calls awaiting detectObjects, per caller
    apiDetects,     \* direct detectObjects calls awaiting prediction.data()
    \* App coordinator (src/js/app.js)
    appReady, continuousScanActive, currentDetections,
    scanBtnDisabled, continuousBtnDisabled,
    \* Camera module (src/js/cart.js, second half)
    isActive, srcSet, startBtnDisabled, stopBtnDisabled,
    camOps,         \* the startCamera calls of the two click listeners
    stream,         \* the MediaStream the module holds: "null" or its number
    tracks,         \* history: for each stream handed out, whether its tracks run
    \* environment
    tfDefined,      \* typeof tf !== 'undefined'
    videoReady,     \* videoFeed.readyState >= 2
    \* history (observation only; no action's guard reads them)
    ev, phase, loadState, elapsed,
    loadFailed,     \* a load has failed since the page was loaded
    \* detectObjects' inference path and mapClassToProduct, applied to inputs
    inference,      \* the last inference: its inputs, what it logged and returned
    lookup,         \* the last mapClassToProduct call: its argument and result
    \* Cart module (src/js/cart.js, first half)
    items, itemIdCounter,
    cartView,       \* what renderCart and updateButtons last put on the page
    \* Stats module (src/js/stats.js)
    stats,          \* the counters, when the record is not null
    statsNull,      \* stats === null, as JSON.parse('null') leaves it
    statsView,      \* what updateDisplay last put on the page
    storage,        \* localStorage['pos_stats']: <<>> or <<the saved text>>
    statsHist,      \* history: the record of the last write that succeeded,
                    \* whether a mutation was made since the page was loaded, how
                    \* the write of the last Stats operation went, and the
                    \* operation's argument
    \* history of the Cart
    cartPre,        \* the cart just before the last Cart operation, and its argument
    ledger,         \* total and number of what was added and not yet taken out
    issued,         \* every id addItem has handed out, in order
    \* around the modules
    exported,       \* what Export last did: the file the browser was handed, the
                    \* download attempts of the last call, its result
    sold,           \* history: the orders completed, their number and their sum
    handle          \* what a caller of the Cart holds of a value returned to it

modelVars == <<model, modelLoading, modelLoaded, loads, loadState, loadFailed>>
pollerVars == <<continuousDetectionId, continuousDetectionCallback, loops, phase>>
appVars == <<appReady, continuousScanActive, currentDetections,
             scanBtnDisabled, continuousBtnDisabled>>
\* The MediaStream objects; they are followed by StartCameraStream and
\* StopCameraStream and left out of sight everywhere else.
streamVars == <<stream, tracks>>
camVars == <<isActive, srcSet, startBtnDisabled, stopBtnDisabled, camOps, streamVars>>
pipeVars == <<inference, lookup>>
cartVars == <<items, itemIdCounter, cartView, cartPre, ledger, issued>>
statsVars == <<stats, statsNull, statsView, storage, statsHist>>
\* What the Detection, App and Camera actions leave alone.
callerVars == <<exported, sold, handle>>
\* What only the inference actions and the callers of Cart and Export change.
sideVars == <<pipeVars, callerVars>>
shopVars == <<sideVars, cartVars, statsVars>>
\* What the inference, Cart and Stats actions leave alone, but for ev.
machineVars == <<modelVars, pollerVars, scanning, apiDetects, appVars, camVars,
                 tfDefined, videoReady, elapsed>>
vars == <<machineVars, ev, shopVars>>

FreeLoop == [pc |-> "free", first |-> FALSE, fresh |-> FALSE]

\* What the last step was: the operation, its result, the callback it invoked,
\* whether it scheduled a timer, whether a callback came before an interval had
\* elapsed since the one before, what held just before the step, the frame
\* source a detectObjects call was given, and how the classification that a
\* poller cycle awaited has ended.
Ev(o, r) == [op |-> o, res |-> r, cb |-> "null", sched |-> FALSE,
             early |-> FALSE, pre |-> "-", frame |-> "-", out |-> "-"]

NumLoads == loads["api"] + loads["app"] + loads["scanApi"] + loads["scanApp"]
LiveLoops == {l \in LoopIds : loops[l].pc # "free"}
PollerDetects == {l \in LoopIds : loops[l].pc \in {"micro", "classify"}}
\* A continuation that waits only for the microtask queue: it runs before any
\* timer, promise or user event.
MicroPending == \E l \in LoopIds : loops[l].pc = "micro"

\* No file downloaded, no export result, nothing held of the Cart.
NoFile == [kind |-> "none", items |-> <<>>, total |-> 0]
NoResult == [success |-> FALSE, error |-> "-"]
NoHandle == [from |-> "-", ids |-> <<>>]

\* The stats record of a freshly loaded page, lines 10-14.
Zero == [itemsScanned |-> 0, ordersCompleted |-> 0, totalRevenue |-> 0]

\* The page as loaded, before any of its code has run; the cart buttons are
\* as the markup has them, disabled or not.
Memory ==
    /\ model = "null"
    /\ modelLoading = FALSE
    /\ modelLoaded = FALSE
    /\ continuousDetectionId = NoTimer
    /\ continuousDetectionCallback = "null"
    /\ loops = [l \in LoopIds |-> FreeLoop]
    /\ loads = [o \in LoadOwners |-> 0]
    /\ scanning = [c \in ScanCallers |-> 0]
    /\ apiDetects = 0
    /\ appReady = FALSE
    /\ continuousScanActive = FALSE
    /\ currentDetections = "empty"
    /\ scanBtnDisabled = TRUE
    /\ continuousBtnDisabled = TRUE
    /\ isActive = FALSE
    /\ srcSet = FALSE
    /\ startBtnDisabled = FALSE
    /\ stopBtnDisabled = TRUE
    /\ camOps = [w \in Listeners |-> "idle"]
    /\ stream = "null"
    /\ tracks = <<>>
    /\ tfDefined \in BOOLEAN
    /\ videoReady = FALSE
    /\ ev = Ev("init", "-")
    /\ phase = "idle"
    /\ loadState = "none"
    /\ loadFailed = FALSE
    /\ elapsed = TRUE
    /\ inference = [fault |-> "-"]
    /\ lookup = [word |-> <<"-">>]
    /\ items = <<>>
    /\ itemIdCounter = 0
    /\ cartView \in {[rows |-> <<>>, count |-> 0, total |-> 0, disabled |-> d] :
                         d \in BOOLEAN}
    /\ stats = Zero
    /\ statsNull = FALSE
    /\ statsView = Zero
    /\ statsHist = [saved |-> <<>>, mutated |-> FALSE, write |-> "none", arg |-> 0]
    /\ cartPre = [items |-> <<>>, arg |-> 0]
    /\ ledger = [total |-> 0, count |-> 0]
    /\ issued = <<>>
    /\ exported = [last |-> NoFile, attempts |-> 0, result |-> NoResult]
    /\ sold = [n |-> 0, sum |-> 0]
    /\ handle = NoHandle

\* The two cart buttons of the page's markup carry the disabled attribute
\* (Cart.init, lines 23-28, renders the cart and leaves the buttons alone).
CartMarkup == cartView.disabled

\* The first visit: nothing is stored under 'pos_stats'.
Init == Memory /\ CartMarkup /\ storage = <<>>

\* ------------------------------------------------------ Detection: pure parts

\* loadModel without the `if (modelLoading) return false` guard.
LoadModelEntry_NoLoadingGuard(loaded, loading, tf) ==
    IF loaded THEN "true"
    ELSE IF ~tf THEN "threw"
    ELSE "load"

\* loadModel up to its await: the guards of lines 48-56 and the typeof check.
LoadModelEntry(loaded, loading, tf) ==
    IF loaded THEN "true"
    ELSE IF loading THEN "false"
    ELSE IF ~tf THEN "threw"
    ELSE "load"

\* The operand of the guard of line 126: no element, an element without a
\* decodable frame (readyState < 2), or a frame.
FrameOf(src, ready) ==
    IF src = "null" THEN "missing"
    ELSE IF ready THEN "ready" ELSE "notready"

\* detectObjects without the `!videoElement || readyState < 2` guard.
DetectEntry_NoFrameGuard(loaded, m, ready) ==
    IF ~loaded \/ m = "null" THEN "threw"
    ELSE "classify"

\* detectObjects up to its await: lines 122-128; `ready` is
\* videoElement && videoElement.readyState >= 2.
DetectEntry(loaded, m, ready) ==
    IF ~loaded \/ m = "null" THEN "threw"
    ELSE IF ~ready THEN "empty"
    ELSE "classify"

\* scanProducts up to its first real suspension: "load" (awaiting the load it
\* started), "classify" (awaiting detectObjects), or its result.
ScanEntry(loaded, loading, tf, m, ready) ==
    IF ~loaded
    THEN LET lr == LoadModelEntry(loaded, loading, tf) IN
         IF lr = "threw" THEN "empty"       \* load failure caught: return []
         ELSE IF lr = "load" THEN "load"
         ELSE DetectEntry(loaded, m, ready) \* loadModel gave false: go on
    ELSE DetectEntry(loaded, m, ready)

\* startContinuousDetection's guards, lines 239-243.
StartEntry(id, loaded) ==
    IF id # NoTimer THEN "noop"
    ELSE IF ~loaded THEN "noop"
    ELSE "start"

\* The list detectObjects resolves to, lines 156-196: "empty", or the product of
\* its one detection.
Detections(out) == IF out \in {"error", "none"} THEN "empty" ELSE out

ScanOwner(c) == IF c = "app" THEN "scanApp" ELSE "scanApi"

\* ------------------------------------------------------ Detection: inference
\* Strings are sequences of one-character strings, so that trim() and
\* toLowerCase() are computed character by character.

caffee == <<"c", "a", "f", "f", "e", "e">>
water == <<"w", "a", "t", "e", "r">>
empty == <<"e", "m", "p", "t", "y">>
unknown == <<"u", "n", "k", "n", "o", "w", "n">>

\* The catalogue, lines 17-20.
PRODUCTS ==
    << [id |-> 1, nameEn |-> "Coffee", price |-> 100, modelClass |-> caffee],
       [id |-> 2, nameEn |-> "Water", price |-> 30, modelClass |-> water] >>

\* JavaScript's null, as the product mapClassToProduct did not find.
Null == [id |-> 0, nameEn |-> "null", price |-> 0, modelClass |-> <<>>]

\* MIN_CONFIDENCE = 0.5 (line 25), as a fraction.
MIN_CONFIDENCE == [num |-> 1, den |-> 2]

\* The class names in the model's output order, line 148.
classNames == <<caffee, water, empty>>

\* The letters of the labels, each with its upper-case form.
UpperCase ==
    [a |-> "A", c |-> "C", e |-> "E", f |-> "F", k |-> "K", m |-> "M",
     n |-> "N", o |-> "O", p |-> "P", r |-> "R", t |-> "T", u |-> "U",
     w |-> "W", y |-> "Y"]

\* Characters String.prototype.trim removes.
Whitespace == {" ", "\t"}

\* String.prototype.toLowerCase.
ToLowerCase(str) ==
    [i \in 1..Len(str) |->
        IF \E l \in DOMAIN UpperCase : UpperCase[l] = str[i]
        THEN CHOOSE l \in DOMAIN UpperCase : UpperCase[l] = str[i]
        ELSE str[i]]

RECURSIVE TrimStart(_)
TrimStart(str) ==
    IF str # <<>> /\ Head(str) \in Whitespace THEN TrimStart(Tail(str)) ELSE str

RECURSIVE TrimEnd(_)
TrimEnd(str) ==
    IF str # <<>> /\ str[Len(str)] \in Whitespace
    THEN TrimEnd(SubSeq(str, 1, Len(str) - 1))
    ELSE str

\* String.prototype.trim.
Trim(str) == TrimEnd(TrimStart(str))

\* mapClassToProduct without the trim() of the class name.
MapClassToProduct_NoTrim(className) ==
    LET cleanName == ToLowerCase(className)
        found == {i \in 1..Len(PRODUCTS) :
                     ToLowerCase(Trim(PRODUCTS[i].modelClass)) = cleanName}
    IN  IF found = {} THEN Null
        ELSE PRODUCTS[CHOOSE i \in found : \A j \in found : i <= j]

\* mapClassToProduct(className), lines 38-42: the first product whose trimmed,
\* lower-cased modelClass equals the trimmed, lower-cased name, or null.
MapClassToProduct(className) ==
    LET cleanName == ToLowerCase(Trim(className))
        found == {i \in 1..Len(PRODUCTS) :
                     ToLowerCase(Trim(PRODUCTS[i].modelClass)) = cleanName}
    IN  IF found = {} THEN Null
        ELSE PRODUCTS[CHOOSE i \in found : \A j \in found : i <= j]

\* The arg-max loop with `>=` for `>`.
RECURSIVE ArgMaxLoop_LastWins(_, _, _, _)
ArgMaxLoop_LastWins(probabilities, i, maxProb, maxIndex) ==
    IF i >= Len(probabilities) THEN [maxProb |-> maxProb, maxIndex |-> maxIndex]
    ELSE IF probabilities[i + 1] >= maxProb
         THEN ArgMaxLoop_LastWins(probabilities, i + 1, probabilities[i + 1], i)
         ELSE ArgMaxLoop_LastWins(probabilities, i + 1, maxProb, maxIndex)

\* The arg-max loop of lines 136-143, from iteration i on (indices from 0 as
\* in the code; probabilities[i + 1] is the code's probabilities[i]).
RECURSIVE ArgMaxLoop(_, _, _, _)
ArgMaxLoop(probabilities, i, maxProb, maxIndex) ==
    IF i >= Len(probabilities) THEN [maxProb |-> maxProb, maxIndex |-> maxIndex]
    ELSE IF probabilities[i + 1] > maxProb
         THEN ArgMaxLoop(probabilities, i + 1, probabilities[i + 1], i)
         ELSE ArgMaxLoop(probabilities, i + 1, maxProb, maxIndex)

\* classNames[maxIndex] || 'unknown', line 149.
ClassName(maxIndex) ==
    IF maxIndex + 1 \in DOMAIN classNames THEN classNames[maxIndex + 1] ELSE unknown

\* The threshold test with `<=` for `<`.
LowConfidence_Inclusive(confidence) ==
    MIN_CONFIDENCE.den * confidence <= MIN_CONFIDENCE.num * ProbScale

\* confidence < MIN_CONFIDENCE, line 156, on probabilities scaled by ProbScale.
LowConfidence(confidence) ==
    MIN_CONFIDENCE.den * confidence < MIN_CONFIDENCE.num * ProbScale

\* The bounding box taken from the longer frame dimension.
BBox_LongerSide(videoWidth, videoHeight) ==
    LET w == IF videoWidth = 0 THEN 640 ELSE videoWidth
        h == IF videoHeight = 0 THEN 480 ELSE videoHeight
        boxSize == (IF w > h THEN w ELSE h) * 6
    IN  [x |-> (10 * w - boxSize) \div 2, y |-> (10 * h - boxSize) \div 2,
         width |-> boxSize, height |-> boxSize]

\* The bounding box of lines 169-173 and 181-186, in tenths of a pixel:
\* boxSize = Math.min(w, h) * 0.6, boxX = (w - boxSize) / 2, boxY likewise,
\* where a zero videoWidth or videoHeight is replaced by 640 or 480.
\* 10 * w - boxSize is even, so the halving is exact.
BBox(videoWidth, videoHeight) ==
    LET w == IF videoWidth = 0 THEN 640 ELSE videoWidth
        h == IF videoHeight = 0 THEN 480 ELSE videoHeight
        boxSize == (IF w < h THEN w ELSE h) * 6
    IN  [x |-> (10 * w - boxSize) \div 2, y |-> (10 * h - boxSize) \div 2,
         width |-> boxSize, height |-> boxSize]

\* detectObjects returns this list.
Returned(list) == [threw |-> FALSE, detections |-> list]

\* A catch block that rethrows.
CatchInference_Rethrow(fault) == [threw |-> TRUE, detections |-> <<>>]

\* The catch block of lines 193-196.
CatchInference(fault) == Returned(<<>>)

\* Where the try block of detectObjects can fail: preprocessImage (line 132),
\* model.predict (line 133), prediction.data() (line 134).
Faults == {"none", "preprocess", "predict", "data"}

\* The try block of detectObjects, lines 130-196, for a loaded model and a
\* ready frame: what it returns when the step `fault` fails, or when the
\* prediction holds `probabilities` and the frame has the given size.
DetectObjectsTry(fault, probabilities, videoWidth, videoHeight) ==
    IF fault # "none" THEN CatchInference(fault)
    ELSE LET top == ArgMaxLoop(probabilities, 0, 0, 0)
             confidence == top.maxProb
             className == ClassName(top.maxIndex)
             product == MapClassToProduct(className)
         IN  IF LowConfidence(confidence) THEN Returned(<<>>)
             ELSE IF className = empty THEN Returned(<<>>)
             ELSE IF product # Null
                  THEN Returned(<< [product |-> product,
                                    className |-> className,
                                    confidence |-> confidence,
                                    boundingBox |-> BBox(videoWidth, videoHeight)] >>)
                  ELSE Returned(<<>>)

\* What line 152 logs: the class name and the confidence.
Logged(probabilities) ==
    LET top == ArgMaxLoop(probabilities, 0, 0, 0)
    IN  [className |-> ClassName(top.maxIndex), confidence |-> top.maxProb]

\* The outcome of a classification as the poller and scanProducts see it.
OutcomeOf(fault, result) ==
    IF fault # "none" THEN "error"
    ELSE IF result.detections = <<>> THEN "none"
    ELSE result.detections[1].product.nameEn

\* ------------------------------------------------------ Detection: fragments

\* A loadModel whose catch leaves modelLoading set.
LoadModelSync_StaysLoading(owner, r) ==
    /\ r = "load" => NumLoads < MaxLoads
    /\ modelLoading' = IF r \in {"load", "threw"} THEN TRUE ELSE modelLoading
    /\ loads' = IF r = "load" THEN [loads EXCEPT ![owner] = @ + 1] ELSE loads
    /\ loadState' = IF r = "load" THEN "inflight"
                    ELSE IF r = "threw" THEN "failed"
                    ELSE loadState
    /\ loadFailed' = (loadFailed \/ r = "threw")
    /\ UNCHANGED <<model, modelLoaded>>

\* loadModel's synchronous part (lines 48-66 and the catch of a synchronous
\* throw, lines 73-77) run for the caller `owner`, with entry result r.
LoadModelSync(owner, r) ==
    /\ r = "load" => NumLoads < MaxLoads
    /\ modelLoading' = IF r = "load" THEN TRUE
                       ELSE IF r = "threw" THEN FALSE
                       ELSE modelLoading
    /\ loads' = IF r = "load" THEN [loads EXCEPT ![owner] = @ + 1] ELSE loads
    /\ loadState' = IF r = "load" THEN "inflight"
                    ELSE IF r = "threw" THEN "failed"
                    ELSE loadState
    /\ loadFailed' = (loadFailed \/ r = "threw")
    /\ UNCHANGED <<model, modelLoaded>>

\* A catch block that drops the model when an inference fails.
DetectObjectsEffect_DropOnError(out) ==
    IF out = "error"
    THEN model' = "null" /\ modelLoaded' = FALSE
    ELSE UNCHANGED <<model, modelLoaded>>

\* What the try block of detectObjects (lines 130-196) does to the module's
\* model state, whatever the outcome of the inference: nothing.
DetectObjectsEffect(out) ==
    UNCHANGED <<model, modelLoaded>>

\* scanProducts's synchronous part (lines 200-216) for caller c, entry result r.
ScanProductsSync(c, r) ==
    /\ LoadModelSync(ScanOwner(c),
                     IF modelLoaded THEN "true"
                     ELSE LoadModelEntry(modelLoaded, modelLoading, tfDefined))
    /\ r = "classify" => scanning[c] < MaxScans
    /\ scanning' = IF r = "classify" THEN [scanning EXCEPT ![c] = @ + 1]
                   ELSE scanning

\* clearTimeout(id): only a pending timer is cancelled, and its loop ends.
ClearTimeout(id) ==
    [l \in LoopIds |-> IF l = id /\ loops[l].pc = "timer" THEN FreeLoop
                       ELSE loops[l]]

\* The first cycle's detectObjects call of a new detectFrame loop (line 250).
NewLoop(r) ==
    IF r = "threw" THEN FreeLoop    \* detectFrame rejects: nothing is scheduled
    ELSE [pc |-> IF r = "classify" THEN "classify" ELSE "micro",
          first |-> TRUE, fresh |-> FALSE]

\* startContinuousDetection(cb, interval), lines 238-260.
StartContinuousDetection(cb) ==
    IF StartEntry(continuousDetectionId, modelLoaded) = "start"
    THEN /\ \E l \in LoopIds :
              /\ loops[l].pc = "free"
              /\ \A k \in LoopIds : k < l => loops[k].pc # "free"
              /\ loops' = [loops EXCEPT
                     ![l] = NewLoop(DetectEntry(modelLoaded, model, videoReady))]
         /\ continuousDetectionCallback' = cb
         /\ phase' = "started"
         /\ UNCHANGED continuousDetectionId
    ELSE /\ phase' = IF phase = "stopped" THEN "idle" ELSE phase
         /\ UNCHANGED <<continuousDetectionId, continuousDetectionCallback, loops>>

\* stopContinuousDetection(), lines 262-269.
StopContinuousDetection ==
    /\ IF continuousDetectionId # NoTimer
       THEN /\ loops' = ClearTimeout(continuousDetectionId)
            /\ continuousDetectionId' = NoTimer
            /\ continuousDetectionCallback' = "null"
       ELSE UNCHANGED <<continuousDetectionId, continuousDetectionCallback, loops>>
    /\ phase' = "stopped"

\* A detectFrame that gives up after a failed inference.
NextCycle_HaltOnError(out) ==
    IF out = "error" THEN FreeLoop
    ELSE [pc |-> "timer", first |-> FALSE, fresh |-> TRUE]

\* The end of detectFrame, line 255: the next cycle is put on a timer, whatever
\* detectObjects has resolved to.
NextCycle(out) == [pc |-> "timer", first |-> FALSE, fresh |-> TRUE]

\* ------------------------------------------------------ Cart

\* The item addItem builds, lines 36-44 (nameAr, confidence and addedAt are
\* carried along and read by no operation).
CartItem(id, product) ==
    [id |-> id, productId |-> product.id, nameEn |-> product.nameEn,
     price |-> product.price]

\* An id taken from the length of the cart.
NextId_FromLength(counter) == Len(items) + 1

\* ++itemIdCounter, line 37.
NextId(counter) == counter + 1

\* items.reduce((sum, item) => sum + item.price, sum), from the left.
RECURSIVE Reduce(_, _)
Reduce(its, sum) ==
    IF its = <<>> THEN sum ELSE Reduce(Tail(its), sum + Head(its).price)

\* getTotal(), lines 82-84.
GetTotal(its) == Reduce(its, 0)

\* getItemCount(), lines 90-92.
GetItemCount(its) == Len(its)

\* getItems(), lines 98-100: a copy of the list.
GetItems(its) == [i \in 1..Len(its) |-> its[i]]

\* getOrderData(), lines 106-112.
GetOrderData(its) ==
    [items |-> GetItems(its), total |-> GetTotal(its),
     itemsCount |-> GetItemCount(its)]

\* items.findIndex(item => item.id === itemId), line 59: an index from 0, or -1.
FindIndex(its, itemId) ==
    LET found == {i \in 1..Len(its) : its[i].id = itemId}
    IN  IF found = {} THEN -1
        ELSE (CHOOSE i \in found : \A j \in found : i <= j) - 1

\* A splice that drops everything from start on.
Splice_ToEnd(its, start, deleteCount) ==
    LET len == Len(its)
        from == IF start < 0 THEN (IF len + start > 0 THEN len + start ELSE 0)
                ELSE (IF start < len THEN start ELSE len)
    IN  SubSeq(its, 1, from)

\* Array.prototype.splice(start, deleteCount): the array it leaves.  A negative
\* start counts from the end.
Splice(its, start, deleteCount) ==
    LET len == Len(its)
        from == IF start < 0 THEN (IF len + start > 0 THEN len + start ELSE 0)
                ELSE (IF start < len THEN start ELSE len)
        n == IF deleteCount < len - from THEN deleteCount ELSE len - from
    IN  SubSeq(its, 1, from) \o SubSeq(its, from + n + 1, len)

\* removeItem without the `index !== -1` test.
RemoveItemFrom_NoFoundCheck(its, itemId) == Splice(its, FindIndex(its, itemId), 1)

\* What removeItem(itemId) makes of the list, lines 59-62.
RemoveItemFrom(its, itemId) ==
    LET index == FindIndex(its, itemId)
    IN  IF index # -1 THEN Splice(its, index, 1) ELSE its

\* renderCart() and updateButtons(), lines 117-146: the rows, the count, the
\* total and the state of the two cart buttons.
RenderCart(its) ==
    cartView' = [rows |-> [i \in 1..Len(its) |-> its[i].id],
                 count |-> GetItemCount(its), total |-> GetTotal(its),
                 disabled |-> ~(Len(its) > 0)]

\* Cart.addItem(product), lines 35-52, on the Cart's own state.
CartAddItem(product) ==
    LET id == NextId(itemIdCounter) IN
    /\ Len(issued) < MaxAdds
    /\ itemIdCounter' = id
    /\ items' = Append(items, CartItem(id, product))
    /\ RenderCart(items')
    /\ cartPre' = [items |-> items, arg |-> product.id]
    /\ ledger' = [total |-> ledger.total + product.price, count |-> ledger.count + 1]
    /\ issued' = Append(issued, id)

\* ------------------------------------------------------ Stats: fragments
\* src/js/stats.js.  A stored text is a record: json says what the text is (an
\* object, the text null, or no JSON at all) and members holds, for an object,
\* its keys with their numbers written in decimal digits.

Digit == <<"0", "1", "2", "3", "4", "5", "6", "7", "8", "9">>

\* Number to text, as JSON.stringify writes a non-negative integer.
RECURSIVE NumberToString(_)
NumberToString(n) ==
    IF n < 10 THEN <<Digit[n + 1]>>
    ELSE Append(NumberToString(n \div 10), Digit[(n % 10) + 1])

\* Text to number, as JSON.parse reads one.
RECURSIVE ParseNumber(_, _)
ParseNumber(str, acc) ==
    IF str = <<>> THEN acc
    ELSE ParseNumber(Tail(str),
                     10 * acc + (CHOOSE d \in 0..9 : Digit[d + 1] = Head(str)))

\* The fields of the stats record, in the order of lines 11-13.
StatsKeys == <<"itemsScanned", "ordersCompleted", "totalRevenue">>

\* JSON.stringify of the stats record, line 54.
JsonStringify(value) ==
    [json |-> "object",
     members |-> [i \in 1..Len(StatsKeys) |->
                     [key |-> StatsKeys[i], text |-> NumberToString(value[StatsKeys[i]])]]]

\* The text null, and a text that is no JSON.
NullText == [json |-> "null", members |-> <<>>]
Garbage == [json |-> "garbage", members |-> <<>>]

\* JSON.parse, line 41: it throws on a text that is no JSON, gives null for the
\* text null, and for an object the record of its members.
JsonParse(text) ==
    CASE text.json = "garbage" -> [threw |-> TRUE, null |-> FALSE, value |-> Zero]
      [] text.json = "null" -> [threw |-> FALSE, null |-> TRUE, value |-> Zero]
      [] OTHER ->
           [threw |-> FALSE, null |-> FALSE,
            value |-> [k \in {text.members[i].key : i \in 1..Len(text.members)} |->
                          LET i == CHOOSE j \in 1..Len(text.members) :
                                       text.members[j].key = k
                          IN  ParseNumber(text.members[i].text, 0)]]

\* A loadStats() that never reads what is stored.
LoadStats_KeepsMemory(held) == held

\* loadStats(), lines 37-47, over the in-memory record `held`: nothing stored
\* keeps it, a JSON.parse that throws is caught and keeps it, and whatever
\* JSON.parse returns replaces it, unchecked.
LoadStats(held) ==
    IF storage = <<>> THEN held
    ELSE LET parsed == JsonParse(storage[1]) IN
         IF parsed.threw THEN held
         ELSE [null |-> parsed.null, value |-> parsed.value]

\* saveStats() that lets the failure of setItem out.
SaveStats_Rethrow(s, stored) == stored

\* saveStats(), lines 52-59: whether it returns normally; the failure of
\* localStorage.setItem is caught and logged.
SaveStatsReturns(s, stored) == TRUE

\* saveStats(), lines 52-59, for the record s: localStorage.setItem stores the
\* text, or throws.
SavedTo(store, s, stored) == IF stored THEN <<JsonStringify(s)>> ELSE store
SaveStats(s, stored) == storage' = SavedTo(storage, s, stored)

\* updateDisplay(), lines 96-100.
UpdateDisplay(s) == statsView' = s

\* What a Stats operation leaves in the history: `write` is "ok", "failed" or,
\* when setItem was not reached, "none".
StatsNote(s, write, mutation, arg) ==
    statsHist' = [saved |-> IF write = "ok" THEN <<s>> ELSE statsHist.saved,
                  mutated |-> statsHist.mutated \/ mutation,
                  write |-> write, arg |-> arg]

Written(stored) == IF stored THEN "ok" ELSE "failed"

\* Stats.init(), lines 28-32, on a page whose record is `held` and whose
\* counters show `shown`: updateDisplay reads the fields of the record, which
\* throws when the record is null.
StatsInitFrom(held, shown) ==
    LET got == LoadStats(held) IN
    /\ stats' = got.value
    /\ statsNull' = got.null
    /\ statsView' = IF got.null THEN shown ELSE got.value
    /\ UNCHANGED storage

\* Whether Stats.init() throws from that page.
StatsInitThrows(held) == LoadStats(held).null

\* The three counters' mutations, lines 65-91: the record with the counter
\* raised is saved and shown.  Reading a field of a null record throws before
\* anything is changed.
StatsMutate(s, stored, arg) ==
    IF statsNull THEN /\ UNCHANGED <<stats, statsNull, statsView, storage>>
                      /\ StatsNote(stats, "none", FALSE, arg)
    ELSE /\ stats' = s
         /\ UNCHANGED statsNull
         /\ SaveStats(s, stored)
         /\ IF SaveStatsReturns(s, stored) THEN UpdateDisplay(s)
            ELSE UNCHANGED statsView
         /\ StatsNote(s, Written(stored), TRUE, arg)

\* Whether a mutation returns normally.
StatsMutateResult(stored) ==
    IF statsNull \/ ~SaveStatsReturns(stats, stored) THEN "threw"
    ELSE IF stored THEN "saved" ELSE "unsaved"

\* Stats.incrementItemsScanned(1), lines 65-70, on the Stats' own state.
StatsIncrementItemsScanned(stored) ==
    /\ stats.itemsScanned < MaxScanned
    /\ StatsMutate([stats EXCEPT !.itemsScanned = @ + 1], stored, 1)

\* stats.ordersCompleted += 1 (line 76) and stats.totalRevenue += amount
\* (line 87), on a record.
WithOrder(s) == [s EXCEPT !.ordersCompleted = @ + 1]

\* An addRevenue that counts the order instead of its amount.
WithRevenue_PerOrder(s, amount) == [s EXCEPT !.totalRevenue = @ + 1]

WithRevenue(s, amount) == [s EXCEPT !.totalRevenue = @ + amount]

\* Stats.incrementOrders(), lines 75-80.
StatsIncrementOrders(stored) ==
    /\ stats.ordersCompleted < MaxOrders
    /\ StatsMutate(WithOrder(stats), stored, 1)

\* Stats.addRevenue(amount), lines 86-91.
StatsAddRevenue(amount, stored) ==
    /\ stats.totalRevenue + amount <= MaxRevenue
    /\ StatsMutate(WithRevenue(stats, amount), stored, amount)

\* Stats.resetStats(), lines 113-122: a new record replaces the old one, null
\* or not.
StatsResetStats(stored) ==
    /\ stats' = Zero
    /\ statsNull' = FALSE
    /\ SaveStats(Zero, stored)
    /\ IF SaveStatsReturns(Zero, stored) THEN UpdateDisplay(Zero)
       ELSE UNCHANGED statsView
    /\ StatsNote(Zero, Written(stored), TRUE, 0)

\* ------------------------------------------------------ App: fragments

\* updateButtonStates(), lines 377-387, with the values it reads.
UpdateButtonStates(active, loaded) ==
    /\ scanBtnDisabled' = (~active \/ ~loaded)
    /\ continuousBtnDisabled' = (~active \/ ~loaded)

\* A callback that puts what it is shown into the cart.
AppCallback_AddsToCart(dets) ==
    /\ currentDetections' = dets
    /\ IF dets = "empty" THEN UNCHANGED <<cartVars, statsVars>>
       ELSE /\ CartAddItem(PRODUCTS[1])
            /\ StatsIncrementItemsScanned(TRUE)

\* The callback App passes to the poller, lines 147-156: it keeps the
\* detections and shows them; it calls neither Cart nor Stats.
AppCallback(dets) ==
    /\ currentDetections' = dets
    /\ UNCHANGED <<cartVars, statsVars>>

\* Whatever callback is stored is invoked with the detections (line 252).
InvokeCallback(dets) ==
    IF continuousDetectionCallback = "app" THEN AppCallback(dets)
    ELSE UNCHANGED <<currentDetections, cartVars, statsVars>>

\* startContinuousScan(), lines 128-159.
StartContinuousScan ==
    IF isActive /\ modelLoaded
    THEN /\ continuousScanActive' = TRUE
         /\ StartContinuousDetection("app")
    ELSE UNCHANGED <<continuousScanActive, pollerVars>>

\* A stopContinuousScan that leaves the scan running.
StopContinuousScan_KeepsFlag ==
    UNCHANGED <<continuousScanActive, pollerVars>>

\* stopContinuousScan(), lines 164-178.
StopContinuousScan ==
    IF continuousScanActive
    THEN /\ continuousScanActive' = FALSE
         /\ StopContinuousDetection
    ELSE UNCHANGED <<continuousScanActive, pollerVars>>

\* A scan that always takes the first entry of the catalogue.
ProductNamed_First(name) == PRODUCTS[1]

\* The catalogue entry of a detection.
ProductNamed(name) == PRODUCTS[CHOOSE i \in 1..Len(PRODUCTS) : PRODUCTS[i].nameEn = name]

\* performScan() after scanProducts has settled (lines 204-233): `res` is
\* "threw" or the detections.  The product of the first detection goes into the
\* cart and is counted (lines 220-226).
PerformScanDone(res) ==
    /\ currentDetections' = IF res = "threw" THEN currentDetections ELSE res
    /\ scanBtnDisabled' = FALSE
    /\ UNCHANGED <<appReady, continuousScanActive, continuousBtnDisabled>>
    /\ IF res \in {"threw", "empty"} THEN UNCHANGED <<cartVars, statsVars>>
       ELSE /\ CartAddItem(ProductNamed(res))
            /\ \E stored \in BOOLEAN : StatsIncrementItemsScanned(stored)

\* What the caller of scanProducts does with its result.
ScanSettled(c, res) ==
    IF c = "app" THEN PerformScanDone(res)
    ELSE UNCHANGED <<appVars, cartVars, statsVars>>

\* ------------------------------------------------------ Detection: calls

\* Detection.loadModel() called directly.
LoadModelCall ==
    LET r == LoadModelEntry(modelLoaded, modelLoading, tfDefined) IN
    /\ LoadModelSync("api", r)
    /\ ev' = [Ev("loadModel", r) EXCEPT
                 !.pre = IF NumLoads > 0 THEN "inflight" ELSE loadState]
    /\ UNCHANGED <<pollerVars, scanning, apiDetects, appVars, camVars,
                   tfDefined, shopVars, videoReady, elapsed>>

\* Detection.detectObjects(videoElement) called directly, with the video
\* element or with nothing.
DetectObjectsCall ==
    \E src \in FrameSources :
    LET f == FrameOf(src, videoReady)
        r == DetectEntry(modelLoaded, model, f = "ready") IN
    /\ r = "classify" => apiDetects < MaxApiDetects
    /\ apiDetects' = IF r = "classify" THEN apiDetects + 1 ELSE apiDetects
    /\ ev' = [Ev("detectObjects", r) EXCEPT
                 !.pre = IF NumLoads > 0 THEN "inflight" ELSE loadState,
                 !.frame = f]
    /\ UNCHANGED <<modelVars, pollerVars, scanning, appVars, camVars,
                   tfDefined, shopVars, videoReady, elapsed>>

\* Detection.scanProducts() called directly.
ScanProductsCall ==
    LET r == ScanEntry(modelLoaded, modelLoading, tfDefined, model, videoReady) IN
    /\ ScanProductsSync("api", r)
    /\ ev' = [Ev("scanProducts", r) EXCEPT
                 !.pre = IF NumLoads > 0 THEN "inflight" ELSE loadState]
    /\ UNCHANGED <<pollerVars, apiDetects, appVars, camVars,
                   tfDefined, shopVars, videoReady, elapsed>>

\* Detection.startContinuousDetection(cb) called directly.
StartCall(cb) ==
    /\ StartContinuousDetection(cb)
    /\ ev' = [Ev("start", StartEntry(continuousDetectionId, modelLoaded)) EXCEPT
                 !.cb = cb, !.pre = phase]
    /\ UNCHANGED <<modelVars, scanning, apiDetects, appVars, camVars,
                   tfDefined, shopVars, videoReady, elapsed>>

\* Detection.stopContinuousDetection() called directly.
StopCall ==
    /\ StopContinuousDetection
    /\ ev' = [Ev("stop", IF continuousDetectionId # NoTimer THEN "cleared" ELSE "noop")
                 EXCEPT !.pre = phase]
    /\ UNCHANGED <<modelVars, scanning, apiDetects, appVars, camVars,
                   tfDefined, shopVars, videoReady, elapsed>>

\* The video element starts or stops having decodable data (readyState).
VideoReadyChange ==
    /\ ~MicroPending
    /\ videoReady' = ~videoReady
    /\ ev' = Ev("video", "-")
    /\ UNCHANGED <<modelVars, pollerVars, scanning, apiDetects, appVars, camVars,
                   tfDefined, shopVars, elapsed>>

\* ------------------------------------------------------ Detection: resumptions

\* tf.loadLayersModel resolves: loadModel lines 68-71, then the awaiting caller.
LoadResolve(o) ==
    /\ ~MicroPending
    /\ loads[o] > 0
    /\ model' = "tfmodel"
    /\ modelLoaded' = TRUE
    /\ modelLoading' = FALSE
    /\ loads' = [loads EXCEPT ![o] = @ - 1]
    /\ loadState' = "ok"
    /\ UNCHANGED loadFailed
    /\ IF o \in {"scanApi", "scanApp"}
       THEN LET c == IF o = "scanApp" THEN "app" ELSE "api"
                r == DetectEntry(TRUE, "tfmodel", videoReady) IN
            /\ r = "classify" => scanning[c] < MaxScans
            /\ scanning' = IF r = "classify" THEN [scanning EXCEPT ![c] = @ + 1]
                           ELSE scanning
            /\ IF r = "classify" THEN UNCHANGED <<appVars, cartVars, statsVars>>
               ELSE ScanSettled(c, r)
            /\ ev' = Ev("loadResolve", r)
       ELSE /\ UNCHANGED <<scanning, appVars, cartVars, statsVars>>
            /\ ev' = Ev("loadResolve", "true")
    /\ UNCHANGED <<pollerVars, apiDetects, camVars, tfDefined, sideVars, videoReady, elapsed>>

\* tf.loadLayersModel rejects: loadModel lines 73-77, then the awaiting caller
\* (scanProducts catches and returns [], lines 203-206).
LoadReject(o) ==
    /\ ~MicroPending
    /\ loads[o] > 0
    /\ modelLoading' = FALSE
    /\ loads' = [loads EXCEPT ![o] = @ - 1]
    /\ loadState' = "failed"
    /\ loadFailed' = TRUE
    /\ IF o \in {"scanApi", "scanApp"}
       THEN /\ ScanSettled(IF o = "scanApp" THEN "app" ELSE "api", "empty")
            /\ ev' = Ev("loadReject", "empty")
       ELSE /\ UNCHANGED <<appVars, cartVars, statsVars>>
            /\ ev' = Ev("loadReject", "threw")
    /\ UNCHANGED <<model, modelLoaded, pollerVars, scanning, apiDetects, camVars,
                   tfDefined, sideVars, videoReady, elapsed>>

\* A direct detectObjects call settles (lines 133-196).
DetectResolve(out) ==
    /\ ~MicroPending
    /\ apiDetects > 0
    /\ apiDetects' = apiDetects - 1
    /\ DetectObjectsEffect(out)
    /\ ev' = Ev("detectDone", out)
    /\ UNCHANGED <<modelLoading, loads, loadState, loadFailed, pollerVars, scanning, appVars,
                   camVars, tfDefined, shopVars, videoReady, elapsed>>

\* The detectObjects call of a scanProducts settles (lines 216-219), then the
\* caller of scanProducts goes on.
ScanResolve(c, out) ==
    /\ ~MicroPending
    /\ scanning[c] > 0
    /\ scanning' = [scanning EXCEPT ![c] = @ - 1]
    /\ DetectObjectsEffect(out)
    /\ ScanSettled(c, Detections(out))
    /\ ev' = Ev("scanDone", out)
    /\ UNCHANGED <<modelLoading, loads, loadState, loadFailed, pollerVars, apiDetects,
                   camVars, tfDefined, sideVars, videoReady, elapsed>>

\* detectFrame resumes after `await detectObjects` (lines 251-255): the stored
\* callback, if any, gets the detections, and the next cycle is scheduled.
CycleResolve(l, out) ==
    /\ \/ loops[l].pc = "micro" /\ out = "none"
       \/ loops[l].pc = "classify" /\ ~MicroPending
    /\ LET invoked == continuousDetectionCallback # "null" IN
       /\ InvokeCallback(Detections(out))
       /\ loops' = [k \in LoopIds |->
                      IF k = l THEN NextCycle(out)
                      ELSE IF invoked THEN [loops[k] EXCEPT !.fresh = FALSE]
                      ELSE loops[k]]
       /\ elapsed' = IF invoked THEN FALSE ELSE elapsed
       /\ ev' = [Ev("cycle", Detections(out)) EXCEPT
                    !.cb = continuousDetectionCallback, !.sched = TRUE,
                    !.early = invoked /\ ~elapsed,
                    !.pre = IF loops[l].first THEN "first" ELSE "later",
                    !.out = IF loops[l].pc = "micro" THEN "noframe" ELSE out]
    /\ continuousDetectionId' = l
    /\ DetectObjectsEffect(out)
    /\ UNCHANGED <<modelLoading, loads, loadState, loadFailed, continuousDetectionCallback,
                   phase, scanning, apiDetects, appReady, continuousScanActive,
                   scanBtnDisabled, continuousBtnDisabled, camVars, tfDefined, sideVars,
                   videoReady>>

\* A timer set by detectFrame expires: the next cycle begins (lines 248-250).
TimerFire(l) ==
    /\ ~MicroPending
    /\ loops[l].pc = "timer"
    /\ LET r == DetectEntry(modelLoaded, model, videoReady) IN
       /\ loops' = [loops EXCEPT ![l] =
                      IF r = "threw" THEN FreeLoop
                      ELSE [pc |-> IF r = "classify" THEN "classify" ELSE "micro",
                            first |-> FALSE, fresh |-> FALSE]]
       /\ ev' = [Ev("timer", r) EXCEPT !.pre = phase,
                    !.frame = FrameOf("video", videoReady)]
    /\ elapsed' = (elapsed \/ loops[l].fresh)
    /\ UNCHANGED <<modelVars, continuousDetectionId, continuousDetectionCallback,
                   phase, scanning, apiDetects, appVars, camVars, tfDefined, shopVars,
                   videoReady>>

DetectionCalls ==
    \/ LoadModelCall
    \/ DetectObjectsCall
    \/ ScanProductsCall
    \/ \E cb \in Callbacks : StartCall(cb)
    \/ StopCall
    \/ VideoReadyChange

DetectionSteps ==
    \/ \E o \in LoadOwners : LoadResolve(o)
    \/ \E o \in LoadOwners : LoadReject(o)
    \/ \E out \in Outcomes : DetectResolve(out)
    \/ \E c \in ScanCallers, out \in Outcomes : ScanResolve(c, out)
    \/ \E l \in LoopIds, out \in Outcomes : CycleResolve(l, out)
    \/ \E l \in LoopIds : TimerFire(l)

\* The Detection module under any caller.
Next == DetectionCalls \/ DetectionSteps

Spec == Init /\ [][Next]_vars

\* ------------------------------------------------------ App and Camera

\* App.init() on DOM ready (lines 16-40): Stats.init() loads the counters,
\* Cart.init() renders the cart, which is empty, the listeners are registered,
\* the scan buttons are set from camera and model, and loadAIModel() calls
\* Detection.loadModel() (line 52).  An exception of Stats.init() skips all
\* that follows it (the catch of lines 36-38).
AppInit ==
    LET held == [null |-> statsNull, value |-> stats] IN
    /\ ~appReady
    /\ StatsInitFrom(held, statsView)
    /\ StatsNote(stats, "none", FALSE, 0)
    /\ IF StatsInitThrows(held)
       THEN /\ ev' = Ev("init", "initThrew")
            /\ UNCHANGED <<modelVars, appVars>>
       ELSE /\ appReady' = TRUE
            /\ UpdateButtonStates(isActive, modelLoaded)
            /\ LoadModelSync("app", LoadModelEntry(modelLoaded, modelLoading, tfDefined))
            /\ ev' = Ev("init", LoadModelEntry(modelLoaded, modelLoading, tfDefined))
            /\ UNCHANGED <<continuousScanActive, currentDetections>>
    /\ UNCHANGED <<pollerVars, scanning, apiDetects, camVars, tfDefined, sideVars,
                   cartVars, videoReady, elapsed>>

\* Click on the start-camera button: Camera.init's listener and App's listener
\* each call Camera.startCamera(), which awaits getUserMedia (line 218).
CameraStartClick ==
    /\ appReady /\ ~MicroPending
    /\ ~startBtnDisabled
    /\ \A w \in Listeners : camOps[w] = "idle"
    /\ camOps' = [w \in Listeners |-> "gum"]
    /\ ev' = Ev("cameraStartClick", "-")
    /\ UNCHANGED <<modelVars, pollerVars, scanning, apiDetects, appVars, isActive,
                   srcSet, startBtnDisabled, stopBtnDisabled, streamVars, tfDefined,
                   shopVars, videoReady, elapsed>>

\* getUserMedia resolves for one of the two calls: startCamera lines 228-238,
\* but for the stream object.
StartCameraResumed(w) ==
    /\ ~MicroPending
    /\ camOps[w] = "gum"
    /\ camOps' = [camOps EXCEPT ![w] = "play"]
    /\ srcSet' = TRUE
    /\ videoReady' = FALSE      \* a new srcObject resets the element
    /\ isActive' = TRUE
    /\ startBtnDisabled' = TRUE
    /\ stopBtnDisabled' = FALSE
    /\ ev' = Ev("gumResolve", w)
    /\ UNCHANGED <<modelVars, pollerVars, scanning, apiDetects, appVars,
                   tfDefined, shopVars, elapsed>>

\* getUserMedia resolves, with the stream objects out of sight.
GumResolve(w) == StartCameraResumed(w) /\ UNCHANGED streamVars

\* getUserMedia resolves with a new MediaStream and startCamera assigns it
\* (`stream = await getUserMedia(...)`, line 218): it takes the place of the
\* one held, whose tracks go on running.
StartCameraStream(w) ==
    /\ StartCameraResumed(w)
    /\ Len(tracks) < MaxStreams
    /\ stream' = Len(tracks) + 1
    /\ tracks' = Append(tracks, TRUE)

\* getUserMedia rejects (lines 246-251); App's listener sees no success.
GumReject(w) ==
    /\ ~MicroPending
    /\ camOps[w] = "gum"
    /\ camOps' = [camOps EXCEPT ![w] = "idle"]
    /\ ev' = Ev("gumReject", w)
    /\ UNCHANGED <<modelVars, pollerVars, scanning, apiDetects, appVars, isActive,
                   srcSet, startBtnDisabled, stopBtnDisabled, streamVars, tfDefined,
                   shopVars, videoReady, elapsed>>

\* The stream set on the video element starts to deliver frames.
VideoCanPlay ==
    /\ ~MicroPending
    /\ srcSet /\ ~videoReady
    /\ videoReady' = TRUE
    /\ ev' = Ev("video", "-")
    /\ UNCHANGED <<modelVars, pollerVars, scanning, apiDetects, appVars, camVars,
                   tfDefined, shopVars, elapsed>>

\* videoElement.play() resolves (lines 238-244); App's listener then runs
\* lines 85-90.
PlayResolve(w) ==
    /\ ~MicroPending
    /\ camOps[w] = "play"
    /\ srcSet /\ videoReady
    /\ camOps' = [camOps EXCEPT ![w] = "idle"]
    /\ IF w = "app"
       THEN /\ UpdateButtonStates(isActive, modelLoaded)
            /\ StopContinuousScan
       ELSE UNCHANGED <<scanBtnDisabled, continuousBtnDisabled,
                        continuousScanActive, pollerVars>>
    /\ ev' = Ev("playResolve", w)
    /\ UNCHANGED <<modelVars, scanning, apiDetects, appReady, currentDetections,
                   isActive, srcSet, startBtnDisabled, stopBtnDisabled, streamVars,
                   tfDefined, shopVars, videoReady, elapsed>>

\* videoElement.play() rejects (lines 246-251): no success for the listener.
PlayReject(w) ==
    /\ ~MicroPending
    /\ camOps[w] = "play"
    /\ camOps' = [camOps EXCEPT ![w] = "idle"]
    /\ ev' = Ev("playReject", w)
    /\ UNCHANGED <<modelVars, pollerVars, scanning, apiDetects, appVars, isActive,
                   srcSet, startBtnDisabled, stopBtnDisabled, streamVars, tfDefined,
                   shopVars, videoReady, elapsed>>

\* Click on the stop-camera button: Camera.stopCamera() (lines 257-278) by both
\* listeners, then App's lines 95-97, but for the stream object.
StopCameraClicked ==
    /\ appReady /\ ~MicroPending
    /\ ~stopBtnDisabled
    /\ srcSet' = FALSE
    /\ videoReady' = FALSE
    /\ isActive' = FALSE
    /\ startBtnDisabled' = FALSE
    /\ stopBtnDisabled' = TRUE
    /\ UpdateButtonStates(FALSE, modelLoaded)
    /\ StopContinuousScan
    /\ currentDetections' = "empty"
    /\ ev' = Ev("cameraStopClick", "-")
    /\ UNCHANGED <<modelVars, scanning, apiDetects, appReady, camOps, tfDefined, shopVars,
                   elapsed>>

\* The stop-camera click, with the stream objects out of sight.
CameraStopClick == StopCameraClicked /\ UNCHANGED streamVars

\* The stop-camera click and the stream: stopCamera stops the tracks of the
\* stream it holds and drops it (lines 258-262); the second listener's call
\* finds no stream.
StopCameraStream ==
    /\ StopCameraClicked
    /\ tracks' = [i \in 1..Len(tracks) |-> tracks[i] /\ stream # i]
    /\ stream' = "null"

\* Click on the continuous-scan button (lines 116-122).
ContinuousScanClick ==
    /\ appReady /\ ~MicroPending
    /\ ~continuousBtnDisabled
    /\ IF continuousScanActive THEN StopContinuousScan ELSE StartContinuousScan
    /\ ev' = Ev("continuousScanClick", IF continuousScanActive THEN "stop" ELSE "start")
    /\ UNCHANGED <<modelVars, scanning, apiDetects, appReady, currentDetections,
                   scanBtnDisabled, continuousBtnDisabled, camVars, tfDefined, shopVars,
                   videoReady, elapsed>>

\* Click on the scan button: performScan() up to `await scanProducts()`
\* (lines 183-203), and past it when scanProducts settles at once.
ScanClick ==
    /\ appReady /\ ~MicroPending
    /\ ~scanBtnDisabled
    /\ IF isActive /\ modelLoaded
       THEN LET r == ScanEntry(modelLoaded, modelLoading, tfDefined, model, videoReady) IN
            /\ ScanProductsSync("app", r)
            /\ IF r \in {"classify", "load"}
               THEN /\ scanBtnDisabled' = TRUE
                    /\ UNCHANGED <<appReady, continuousScanActive,
                                   currentDetections, continuousBtnDisabled,
                                   cartVars, statsVars>>
               ELSE PerformScanDone(r)
            /\ ev' = Ev("scanClick", r)
       ELSE /\ UNCHANGED <<modelVars, scanning, appVars, cartVars, statsVars>>
            /\ ev' = Ev("scanClick", "refused")
    /\ UNCHANGED <<pollerVars, apiDetects, camVars, tfDefined, sideVars, videoReady, elapsed>>

\* The page becomes hidden: handleVisibilityChange (lines 399-407).
VisibilityHidden ==
    /\ appReady /\ ~MicroPending
    /\ StopContinuousScan
    /\ ev' = Ev("hidden", "-")
    /\ UNCHANGED <<modelVars, scanning, apiDetects, appReady, currentDetections,
                   scanBtnDisabled, continuousBtnDisabled, camVars, tfDefined, shopVars,
                   videoReady, elapsed>>

UserEvents ==
    \/ AppInit
    \/ CameraStartClick
    \/ CameraStopClick
    \/ ContinuousScanClick
    \/ ScanClick
    \/ VisibilityHidden

CameraSteps ==
    \/ \E w \in Listeners : GumResolve(w)
    \/ \E w \in Listeners : GumReject(w)
    \/ \E w \in Listeners : PlayResolve(w)
    \/ \E w \in Listeners : PlayReject(w)
    \/ VideoCanPlay

\* The application handles every product alike: its runs are taken with one
\* product in front of the camera.
AppOutcomes == Outcomes \ {"Water"}

AppDetectionSteps ==
    \/ \E o \in LoadOwners : LoadResolve(o)
    \/ \E o \in LoadOwners : LoadReject(o)
    \/ \E c \in ScanCallers, out \in AppOutcomes : ScanResolve(c, out)
    \/ \E l \in LoopIds, out \in AppOutcomes : CycleResolve(l, out)
    \/ \E l \in LoopIds : TimerFire(l)

\* The application as the user drives it.
AppNext == UserEvents \/ CameraSteps \/ AppDetectionSteps

AppSpec == Init /\ [][AppNext]_vars

\* The poller's liveness rests on timers expiring and on classifications
\* settling; nothing obliges the user to act.
AppLive ==
    /\ AppSpec
    /\ \A l \in LoopIds : WF_vars(TimerFire(l))
    /\ \A l \in LoopIds : WF_vars(\E out \in AppOutcomes : CycleResolve(l, out))

\* ------------------------------------------------------ claims

\* The last step was a detectFrame resumption that invoked the stored callback.
CallbackInvoked == ev.op = "cycle" /\ ev.cb # "null"

\* C1: after stopContinuousDetection() and until a later start call, the
\* callback is never invoked (an in-flight result is discarded), whenever the
\* stop came: first cycle in flight, later cycle in flight, timer pending.
C1_NoCallbackAfterStop == ~(phase = "stopped" /\ CallbackInvoked)

\* C2: detection cycles of the poller never overlap: at most one detectFrame
\* loop exists and at most one of its detectObjects calls is outstanding.
C2_CyclesNeverOverlap ==
    /\ Cardinality(LiveLoops) <= 1
    /\ Cardinality(PollerDetects) <= 1

\* C3: a start call is a no-op whenever the poller is running (an accepted start
\* with no stop call since) and whenever the model is not loaded.
C3_StartIsNoopWhenRunning ==
    (ev.op = "start" /\ (ev.pre = "started" \/ ~modelLoaded)) => ev.res = "noop"

\* C4: after a stop call with no start call since, the poller is Idle: no timer
\* is scheduled, no cycle begins, isContinuousDetectionRunning() is false.
C4_StopReturnsToIdle ==
    phase = "stopped" =>
        /\ continuousDetectionId = NoTimer
        /\ ~ev.sched
        /\ ev.op # "timer"

\* C5: while continuous scanning is active (the user started it with the
\* camera running and the model loaded, and no stop followed), the callback is
\* invoked again and again.
C5_KeepsCycling == []<>(~continuousScanActive \/ CallbackInvoked)

\* C6: between two consecutive callback invocations a full wait of the
\* interval has elapsed: a timer set no earlier than the first one has expired.
C6_OncePerInterval == ~ev.early

\* C7: no two detectObjects calls are outstanding at the same time, whether
\* from the poller, from a single scan, or one of each.
C7_NoParallelClassification ==
    Cardinality(PollerDetects) + scanning["app"] + scanning["api"] <= 1

\* C8: loadModel is guarded against duplicate starts: at most one load is in
\* flight; a call during a load returns false at once and starts none; a call
\* after a successful load returns true and starts none.
C8_LoadGuard ==
    /\ NumLoads <= 1
    /\ (ev.op = "loadModel" /\ ev.pre = "inflight") => ev.res = "false"
    /\ (ev.op = "loadModel" /\ ev.pre = "ok") => (ev.res = "true" /\ NumLoads = 0)

C8_Witness ==
    /\ ev.op = "loadModel" /\ ev.pre = "inflight" /\ ev.res = "false"
    /\ NumLoads = 1

\* C9: once the model-loaded flag is true it stays true, whatever is called and
\* whatever load or inference fails.
C9_LoadedStays == [][modelLoaded => modelLoaded']_vars

C9_Witness == modelLoaded /\ ev.op = "detectDone" /\ ev.res = "error"

\* C10: detectObjects and scanProducts, called before a successful load (none
\* started, one in flight, one failed), fail at once with 'Model not loaded'.
C10_FailFastBeforeLoad ==
    (ev.op \in {"detectObjects", "scanProducts"} /\ ev.pre # "ok") => ev.res = "threw"

\* C11: with the model loaded, a detectObjects call (direct, or a poller cycle's)
\* whose frame source is missing or has no decodable frame yields the empty
\* list and starts no classification.
C11_Step ==
    (/\ ev'.op \in {"detectObjects", "timer"}
     /\ modelLoaded /\ model # "null"
     /\ ev'.frame \in {"missing", "notready"})
    => /\ ev'.res = "empty"
       /\ apiDetects' = apiDetects
       /\ scanning' = scanning
       /\ \A l \in LoopIds : loops'[l].pc = "classify" => loops[l].pc = "classify"

C11_NoFrameNoClassification == [][C11_Step]_vars

C11_Witness ==
    modelLoaded /\ ev.op = "detectObjects" /\ ev.frame = "missing" /\ ev.res = "empty"

\* ------------------------------------------------------ Detection: inference on inputs

\* The predictions: probability vectors over the three classes.
ProbVectors ==
    {p \in [1..Len(classNames) -> 0..ProbScale] : p[1] + p[2] + p[3] = ProbScale}

\* Both functions are pure: a behaviour applies one of them, once, to one input.
NothingApplied == inference.fault = "-" /\ lookup.word = <<"-">>

\* One inference of detectObjects, lines 130-196.
Infer(fault, probabilities, videoWidth, videoHeight) ==
    /\ inference' =
           [fault |-> fault, probabilities |-> probabilities,
            videoWidth |-> videoWidth, videoHeight |-> videoHeight,
            logged |-> Logged(probabilities),
            result |-> DetectObjectsTry(fault, probabilities, videoWidth, videoHeight),
            outcome |-> OutcomeOf(fault, DetectObjectsTry(fault, probabilities,
                                                          videoWidth, videoHeight))]
    /\ UNCHANGED <<machineVars, ev, lookup, callerVars, cartVars, statsVars>>

\* The labels handed to mapClassToProduct: the class names and near misses,
\* in every mix of upper and lower case and with whitespace around them.
Words == {caffee, water, empty, unknown,
          <<"c", "o", "f", "f", "e", "e">>, <<"w", "a", " ", "t", "e", "r">>}
Pads == UNION {[1..n -> Whitespace] : n \in 0..MaxPad}
Cased(word, mask) ==
    [i \in 1..Len(word) |->
        IF mask[i] /\ word[i] \in DOMAIN UpperCase THEN UpperCase[word[i]]
        ELSE word[i]]

\* One call of mapClassToProduct.
MapClassCall(word, mask, padL, padR) ==
    LET className == padL \o Cased(word, mask) \o padR IN
    /\ lookup' = [word |-> word, className |-> className,
                  product |-> MapClassToProduct(className)]
    /\ UNCHANGED <<machineVars, ev, inference, callerVars, cartVars, statsVars>>

\* detectObjects' inference on any prediction, or failing at any step.
InferAny ==
    /\ NothingApplied
    /\ \E fault \in Faults, probabilities \in ProbVectors,
          videoWidth \in 0..MaxDim, videoHeight \in 0..MaxDim :
           Infer(fault, probabilities, videoWidth, videoHeight)

\* mapClassToProduct on any label.
MapClassAny ==
    /\ NothingApplied
    /\ \E word \in Words, padL \in Pads, padR \in Pads :
           \E mask \in [1..Len(word) -> BOOLEAN] :
               MapClassCall(word, mask, padL, padR)

InferenceNext == InferAny \/ MapClassAny

\* The inference path of detectObjects and mapClassToProduct on all inputs.
InferenceSpec == Init /\ [][InferenceNext]_vars

\* The winning label of a prediction: the first index, in the order of the
\* class names, that holds the highest probability.
TopIndex(p) ==
    CHOOSE i \in 1..Len(p) :
        /\ \A j \in 1..Len(p) : p[j] <= p[i]
        /\ \A j \in 1..Len(p) : j < i => p[j] < p[i]

\* C12: for a prediction with winning label L and confidence c, detectObjects
\* returns exactly one detection (of L's product, with confidence c) if and only
\* if c >= 0.5, L is not "empty" and L is the class of a catalogue entry; in every
\* other case it returns the empty list.
C12_DetectionIff ==
    inference.fault = "none" =>
        LET p == inference.probabilities
            L == classNames[TopIndex(p)]
            c == p[TopIndex(p)]
            dets == inference.result.detections
        IN  /\ ~inference.result.threw
            /\ Len(dets) = 1 <=>
                   /\ 2 * c >= ProbScale
                   /\ L # empty
                   /\ \E k \in 1..Len(PRODUCTS) : PRODUCTS[k].modelClass = L
            /\ Len(dets) # 1 => dets = <<>>
            /\ Len(dets) = 1 =>
                   /\ dets[1].product.modelClass = L
                   /\ dets[1].confidence = c

\* A product label wins with a confidence of exactly 0.5 and is detected.
C12_Witness ==
    /\ inference.fault = "none"
    /\ 2 * inference.logged.confidence = ProbScale
    /\ Len(inference.result.detections) = 1

\* C13: the label detectObjects chooses is the one with the highest probability,
\* the first such in the order caffee, water, empty; the confidence it reports is
\* that highest probability.
C13_ArgMaxFirst ==
    inference.fault = "none" =>
        LET p == inference.probabilities IN
        /\ inference.logged.className = classNames[TopIndex(p)]
        /\ inference.logged.confidence = p[TopIndex(p)]
        /\ \A j \in 1..Len(p) : p[j] <= inference.logged.confidence

\* caffee and water tie for the highest probability; caffee is chosen.
C13_Witness ==
    /\ inference.fault = "none"
    /\ inference.probabilities[1] = inference.probabilities[2]
    /\ inference.probabilities[3] < inference.probabilities[1]
    /\ inference.logged.className = caffee

\* C14: every case and padding variant of "caffee" resolves to the coffee product
\* (id 1, price 100), every variant of "water" to the water product (id 2, price
\* 30), and every other label to no product.
C14_LabelLookup ==
    lookup.word # <<"-">> =>
        IF lookup.word = caffee
        THEN /\ lookup.product = PRODUCTS[1]
             /\ lookup.product.id = 1 /\ lookup.product.price = 100
        ELSE IF lookup.word = water
        THEN /\ lookup.product = PRODUCTS[2]
             /\ lookup.product.id = 2 /\ lookup.product.price = 30
        ELSE lookup.product = Null

\* "caffee" with an upper-case letter and whitespace on both sides is coffee.
C14_Witness ==
    /\ lookup.word = caffee
    /\ Len(lookup.className) = Len(caffee) + 2
    /\ lookup.className[2] = "C"
    /\ lookup.product.id = 1

\* C15: every detection carries a square box of side 0.6 * min(W, H) centred on
\* the frame, x = (W - side) / 2 and y = (H - side) / 2, which lies inside the
\* frame, for all frame sizes W, H > 0 (lengths in tenths of a pixel).
C15_BoxInsideFrame ==
    (/\ inference.fault = "none"
     /\ inference.result.detections # <<>>
     /\ inference.videoWidth > 0 /\ inference.videoHeight > 0)
    => LET W == 10 * inference.videoWidth
           H == 10 * inference.videoHeight
           b == inference.result.detections[1].boundingBox
       IN  /\ b.width = b.height
           /\ 10 * b.width = 6 * (IF W < H THEN W ELSE H)
           /\ 2 * b.x = W - b.width
           /\ 2 * b.y = H - b.height
           /\ b.x >= 0 /\ b.y >= 0
           /\ b.x + b.width <= W /\ b.y + b.height <= H

\* A detection on a frame that is wider than high.
C15_Witness ==
    /\ inference.fault = "none"
    /\ inference.result.detections # <<>>
    /\ inference.videoWidth > inference.videoHeight
    /\ inference.videoHeight > 0

\* C16: a failure of preprocessing or of the prediction inside detectObjects
\* gives the caller the empty list and never an exception.
C16_InferenceFailureCaught ==
    inference.fault \in Faults \ {"none"} =>
        /\ ~inference.result.threw
        /\ inference.result.detections = <<>>
        /\ Detections(inference.outcome) = "empty"

C16_Witness ==
    /\ inference.fault = "predict"
    /\ inference.result = Returned(<<>>)

\* ------------------------------------------------------ Cart: calls

\* An addItem that also counts a scanned item.
AddItemStats_CountsScan(product) ==
    /\ stats' = [stats EXCEPT !.itemsScanned = @ + 1]
    /\ UNCHANGED <<statsNull, statsView, storage, statsHist>>

\* addItem and the Stats module: no call, lines 35-52.
AddItemStats(product) == UNCHANGED statsVars

\* Cart.addItem(product), lines 35-52.
AddItem(product) ==
    /\ CartAddItem(product)
    /\ AddItemStats(product)
    /\ ev' = Ev("addItem", "-")
    /\ UNCHANGED <<machineVars, sideVars>>

\* Cart.removeItem(itemId), lines 58-66.
RemoveItem(itemId) ==
    LET held == {i \in 1..Len(items) : items[i].id = itemId} IN
    /\ items' = RemoveItemFrom(items, itemId)
    /\ IF FindIndex(items, itemId) # -1 THEN RenderCart(items')
       ELSE UNCHANGED cartView
    /\ cartPre' = [items |-> items, arg |-> itemId]
    /\ ledger' = IF held = {} THEN ledger
                 ELSE [total |-> ledger.total - items[CHOOSE i \in held : TRUE].price,
                       count |-> ledger.count - 1]
    /\ ev' = Ev("removeItem", IF held = {} THEN "absent" ELSE "removed")
    /\ UNCHANGED <<machineVars, sideVars, itemIdCounter, issued, statsVars>>

\* Cart.clearCart(), lines 71-76, on the Cart's own state.
CartClearCart ==
    /\ items' = <<>>
    /\ RenderCart(items')
    /\ cartPre' = [items |-> items, arg |-> 0]
    /\ ledger' = [total |-> 0, count |-> 0]
    /\ UNCHANGED <<itemIdCounter, issued>>

\* Cart.clearCart(), lines 71-76.
ClearCart ==
    /\ CartClearCart
    /\ ev' = Ev("clearCart", "-")
    /\ UNCHANGED <<machineVars, sideVars, statsVars>>

\* Cart.getOrderData(), lines 106-112.
GetOrderDataCall ==
    /\ cartPre' = [items |-> items, arg |-> GetOrderData(items).total]
    /\ ev' = Ev("getOrderData", "-")
    /\ UNCHANGED <<machineVars, sideVars, items, itemIdCounter, cartView, ledger,
                   issued, statsVars>>

\* Stats.incrementItemsScanned(1), lines 65-70.
IncrementItemsScanned(stored) ==
    /\ StatsIncrementItemsScanned(stored)
    /\ ev' = Ev("incrementItemsScanned", StatsMutateResult(stored))
    /\ UNCHANGED <<machineVars, sideVars, cartVars>>

\* The ids a caller may hand to removeItem.
ItemIds == 1..MaxAdds
CartOps == {"addItem", "removeItem", "clearCart", "getOrderData"}

CartNext ==
    \/ \E i \in 1..Len(PRODUCTS) : AddItem(PRODUCTS[i])
    \/ \E itemId \in ItemIds : RemoveItem(itemId)
    \/ ClearCart
    \/ GetOrderDataCall
    \/ \E stored \in BOOLEAN : IncrementItemsScanned(stored)

\* The Cart under any caller, next to a Stats module that counts scans.
CartSpec == Init /\ [][CartNext]_vars

\* C17: after any sequence of addItem, removeItem and clearCart, getTotal() is
\* the sum of the prices of the items put in and not taken out, getItemCount()
\* is their number (0 and 0 for the empty cart), and the page shows the same.
C17_TotalAndCount ==
    /\ GetTotal(items) = ledger.total
    /\ GetItemCount(items) = ledger.count
    /\ items = <<>> => GetTotal(items) = 0 /\ GetItemCount(items) = 0
    /\ ev.op \in {"addItem", "removeItem", "clearCart"} =>
           cartView.total = ledger.total /\ cartView.count = ledger.count

\* A coffee and a water are left after another item was removed.
C17_Witness ==
    /\ ev.op = "removeItem" /\ ev.res = "removed"
    /\ GetItemCount(items) = 2
    /\ GetTotal(items) = 130

\* C18: addItem puts the new item at the end of the cart with an id strictly
\* greater than every id issued before, also after removeItem and clearCart.
C18_FreshIds ==
    /\ \A i, j \in 1..Len(issued) : i < j => issued[i] < issued[j]
    /\ \A i \in 1..Len(items) : \E j \in 1..Len(issued) : items[i].id = issued[j]
    /\ \A i, j \in 1..Len(items) : i < j => items[i].id < items[j].id
    /\ ev.op = "addItem" =>
           /\ Len(items) = Len(cartPre.items) + 1
           /\ SubSeq(items, 1, Len(items) - 1) = cartPre.items
           /\ items[Len(items)].id = issued[Len(issued)]
           /\ items[Len(items)].productId = cartPre.arg
           /\ itemIdCounter = issued[Len(issued)]

\* The third id is given out into a cart that was emptied in between.
C18_Witness ==
    /\ ev.op = "addItem"
    /\ Len(issued) = 3
    /\ Len(items) = 1
    /\ items[1].id = 3

\* C19: removeItem(id) takes out exactly the item with that id and keeps the
\* other items and their order; with no such item the cart is unchanged.
C19_RemoveExactlyOne ==
    ev.op = "removeItem" =>
        LET before == cartPre.items
            Other(it) == it.id # cartPre.arg
            held == {i \in 1..Len(before) : before[i].id = cartPre.arg}
        IN  /\ items = SelectSeq(before, Other)
            /\ held = {} => items = before
            /\ held # {} => Len(items) = Len(before) - 1

\* The middle one of three items is removed.
C19_Witness ==
    /\ ev.op = "removeItem"
    /\ Len(cartPre.items) = 3
    /\ cartPre.items[2].id = cartPre.arg
    /\ items = <<cartPre.items[1], cartPre.items[3]>>

\* C20: no Cart operation changes the Stats record, in memory, on the page or
\* in storage.
C20_CartLeavesStats ==
    [][ev'.op \in CartOps => UNCHANGED <<stats, statsView, storage>>]_vars

\* An item is added after a scan was counted and saved; the count is still one.
C20_Witness ==
    /\ ev.op = "addItem"
    /\ Len(items) = 2
    /\ stats.itemsScanned = 1
    /\ storage = <<JsonStringify(stats)>>

\* ------------------------------------------------------ Stats: calls

\* Stats.init(), lines 28-32, on the page as it is.
StatsInit ==
    LET held == [null |-> statsNull, value |-> stats] IN
    /\ StatsInitFrom(held, statsView)
    /\ StatsNote(stats, "none", FALSE, 0)
    /\ ev' = Ev("statsInit", IF StatsInitThrows(held) THEN "threw" ELSE "ok")
    /\ UNCHANGED <<machineVars, sideVars, cartVars>>

\* The page is loaded again and Stats.init() runs: the record starts from the
\* zeros of lines 10-14 and the counters on the page from those of the markup;
\* storage is what the page before has left.  Nothing else of the page has
\* been touched by the Stats.
Restart ==
    LET held == [null |-> FALSE, value |-> Zero] IN
    /\ StatsInitFrom(held, Zero)
    /\ statsHist' = [saved |-> statsHist.saved, mutated |-> FALSE,
                     write |-> "none", arg |-> 0]
    /\ ev' = [Ev("restart", IF StatsInitThrows(held) THEN "threw" ELSE "ok")
                 EXCEPT !.pre = IF statsHist.mutated THEN "mutated" ELSE "loaded"]
    /\ UNCHANGED <<machineVars, sideVars, cartVars>>

\* Stats.incrementOrders(), lines 75-80.
IncrementOrders(stored) ==
    /\ StatsIncrementOrders(stored)
    /\ ev' = Ev("incrementOrders", StatsMutateResult(stored))
    /\ UNCHANGED <<machineVars, sideVars, cartVars>>

\* Stats.addRevenue(amount), lines 86-91.
AddRevenue(amount, stored) ==
    /\ StatsAddRevenue(amount, stored)
    /\ ev' = Ev("addRevenue", StatsMutateResult(stored))
    /\ UNCHANGED <<machineVars, sideVars, cartVars>>

\* Stats.resetStats(), lines 113-122.
ResetStats(stored) ==
    /\ StatsResetStats(stored)
    /\ ev' = Ev("resetStats", IF ~SaveStatsReturns(Zero, stored) THEN "threw"
                              ELSE IF stored THEN "saved" ELSE "unsaved")
    /\ UNCHANGED <<machineVars, sideVars, cartVars>>

\* The amounts a caller hands to addRevenue: the prices of the catalogue.
Amounts == {PRODUCTS[i].price : i \in 1..Len(PRODUCTS)}
\* What a visit may find under 'pos_stats': nothing, the record an earlier
\* visit saved, the text null, or a text that is no JSON.
StoredRecords ==
    {Zero, [itemsScanned |-> 2, ordersCompleted |-> 1, totalRevenue |-> 130]}
StoredTexts ==
    {<<>>, <<NullText>>, <<Garbage>>} \cup {<<JsonStringify(r)>> : r \in StoredRecords}
StatsMutations ==
    {"incrementItemsScanned", "incrementOrders", "addRevenue", "resetStats"}

StatsNext ==
    \/ StatsInit
    \/ Restart
    \/ \E stored \in BOOLEAN : IncrementItemsScanned(stored)
    \/ \E stored \in BOOLEAN : IncrementOrders(stored)
    \/ \E amount \in Amounts, stored \in BOOLEAN : AddRevenue(amount, stored)
    \/ \E stored \in BOOLEAN : ResetStats(stored)

\* The Stats module under any caller, on a page that finds any of the texts
\* in storage.
StatsStart == Memory /\ CartMarkup /\ storage \in StoredTexts

StatsSpec == StatsStart /\ [][StatsNext]_vars

\* C22 as stated: every mutation leaves the full record in storage, and a
\* restart after mutations gives back exactly the counters held before it.
C22_RestartReproduces ==
    [][/\ ev'.op \in StatsMutations /\ ev'.res # "threw" =>
              storage' = <<JsonStringify(stats')>>
       /\ ev'.op = "restart" /\ statsHist.mutated /\ ~statsNull =>
              ~statsNull' /\ stats' = stats]_vars

\* C22, amended: every mutation writes the full record to storage; when the
\* write succeeds the record is in storage, and a restart gives back exactly
\* the counters of the last mutation whose write succeeded.
C22_RestartReproducesSaved ==
    /\ ev.op \in StatsMutations /\ statsHist.write = "ok" =>
           storage = <<JsonStringify(stats)>>
    /\ ev.op = "restart" /\ statsHist.saved # <<>> =>
           /\ ev.res = "ok"
           /\ ~statsNull
           /\ stats = statsHist.saved[1]
           /\ statsView = stats

\* A restart after mutations gives back two scans, an order and a revenue of
\* 130, the counters last saved.
C22_Witness ==
    /\ ev.op = "restart" /\ ev.pre = "mutated"
    /\ statsHist.saved # <<>>
    /\ stats = [itemsScanned |-> 2, ordersCompleted |-> 1, totalRevenue |-> 130]

\* C23: loading is never fatal and falls back to zeros: when nothing is
\* stored, or the stored text is not a stats record, Stats.init() on a fresh
\* page completes and leaves the record of zeros.
C23_LoadNeverFatal ==
    ev.op = "restart" /\ (storage = <<>> \/ storage[1].json # "object") =>
        /\ ev.res = "ok"
        /\ ~statsNull
        /\ stats = Zero

\* What a mutation makes of the record s.
Mutated(op, s, arg) ==
    CASE op = "incrementItemsScanned" -> [s EXCEPT !.itemsScanned = @ + 1]
      [] op = "incrementOrders" -> [s EXCEPT !.ordersCompleted = @ + 1]
      [] op = "addRevenue" -> [s EXCEPT !.totalRevenue = @ + arg]
      [] OTHER -> Zero

\* C24: a mutation whose storage write fails returns normally, and the record
\* in memory holds the updated value.
C24_WriteFailureNotFatal ==
    [][ev'.op \in StatsMutations /\ statsHist'.write = "failed" =>
           /\ ev'.res = "unsaved"
           /\ ~statsNull'
           /\ stats' = Mutated(ev'.op, stats, statsHist'.arg)
           /\ statsView' = stats'
           /\ storage' = storage]_vars

\* A revenue of 100 is added to 30 while storage refuses the write: memory
\* holds 130 and storage still the 30.
C24_Witness ==
    /\ ev.op = "addRevenue" /\ statsHist.write = "failed"
    /\ statsHist.arg = 100
    /\ stats.totalRevenue = 130
    /\ storage = <<JsonStringify([stats EXCEPT !.totalRevenue = 30])>>

\* ------------------------------------------------------ Export
\* src/js/export.js.  A download hands the browser one file; the file of an
\* order holds its items and its total.

\* What may go wrong in downloadJSON (lines 89-104): JSON.stringify throws, or
\* the browser refuses the Blob, the link or the click.
ExportFaults == {"none", "serialize", "download"}
\* generateOrderId(), lines 24-28: a timestamp and a random suffix.
OrderIds == 1..2

\* An exportOrder that tries the download a second time.
DownloadAttempts_Retry(fault) ==
    IF fault = "serialize" THEN 0 ELSE IF fault = "download" THEN 2 ELSE 1

\* The calls of link.click() one exportOrder makes: downloadJSON is called
\* once (line 46) and clicks once (line 98), when JSON.stringify has not thrown.
DownloadAttempts(fault) == IF fault = "serialize" THEN 0 ELSE 1

\* The file exportOrder hands the browser, lines 37-46: whatever the order
\* data holds.
FileOfOrder(orderData, fault) ==
    IF fault = "none"
    THEN [kind |-> "order", items |-> orderData.items, total |-> orderData.total]
    ELSE exported.last

\* What exportOrder returns, lines 49 and 53.
ExportOrderResult(fault, orderId) ==
    IF fault = "none"
    THEN [success |-> TRUE, orderId |-> orderId,
          filename |-> [prefix |-> "order_", id |-> orderId, ext |-> ".json"]]
    ELSE [success |-> FALSE, error |-> fault]

\* Export.exportOrder(orderData), lines 35-55.
ExportOrder(orderData, fault, orderId) ==
    exported' = [last |-> FileOfOrder(orderData, fault),
                 attempts |-> DownloadAttempts(fault),
                 result |-> ExportOrderResult(fault, orderId)]

\* Export.exportCurrentCart(), lines 110-118.
ExportCurrentCart(fault, orderId) ==
    LET orderData == GetOrderData(items) IN
    IF Len(orderData.items) = 0
    THEN exported' = [last |-> exported.last, attempts |-> 0,
                      result |-> [success |-> FALSE, error |-> "Cart is empty"]]
    ELSE ExportOrder(orderData, fault, orderId)

\* What exportAllOrders returns, lines 75 and 79.
ExportAllOrdersResult(fault) ==
    IF fault = "none"
    THEN [success |-> TRUE, filename |-> [prefix |-> "pos_export_", ext |-> ".json"]]
    ELSE [success |-> FALSE, error |-> fault]

\* Export.exportAllOrders(), lines 62-81, after the calls that gave e: the
\* file holds the counters of Stats.getStats(), whatever they are.
ExportAllOrders(e, fault) ==
    [last |-> IF fault = "none" THEN [kind |-> "stats", stats |-> stats] ELSE e.last,
     attempts |-> e.attempts + DownloadAttempts(fault),
     result |-> ExportAllOrdersResult(fault),
     files |-> e.files + (IF fault = "none" THEN 1 ELSE 0)]

\* A caller hands exportOrder the order data of the cart as it is.
ExportOrderCall(fault, orderId) ==
    /\ ExportOrder(GetOrderData(items), fault, orderId)
    /\ ev' = Ev("exportOrder", IF exported'.result.success THEN "success" ELSE "failure")
    /\ UNCHANGED <<machineVars, pipeVars, sold, handle, cartVars, statsVars>>

ExportCurrentCartCall(fault, orderId) ==
    /\ ExportCurrentCart(fault, orderId)
    /\ ev' = Ev("exportCurrentCart",
                IF exported'.result.success THEN "success" ELSE "failure")
    /\ UNCHANGED <<machineVars, pipeVars, sold, handle, cartVars, statsVars>>

ExportNext ==
    \/ \E i \in 1..Len(PRODUCTS) : AddItem(PRODUCTS[i])
    \/ \E itemId \in ItemIds : RemoveItem(itemId)
    \/ ClearCart
    \/ \E fault \in ExportFaults, orderId \in OrderIds : ExportOrderCall(fault, orderId)
    \/ \E fault \in ExportFaults, orderId \in OrderIds : ExportCurrentCartCall(fault, orderId)

\* The Export module under any caller, next to a Cart under any caller.
ExportSpec == Init /\ [][ExportNext]_vars

\* C26: exporting an empty cart fails with "Cart is empty" and downloads no
\* file: no order file with an empty items list is ever handed to the
\* browser, by exportCurrentCart or by exportOrder.
C26_NoEmptyOrderFile ==
    /\ exported.last.kind = "order" => exported.last.items # <<>>
    /\ ev.op \in {"exportOrder", "exportCurrentCart"} /\ items = <<>> =>
           /\ ~exported.result.success
           /\ exported.result.error = "Cart is empty"

\* C27: exportOrder returns a result and never retries: a success carries the
\* order id and the file name and one file went out with one attempt, a
\* failure carries the reason and no file went out, and no call clicks the
\* download link more than once.
C27_OneAttemptOneReport ==
    ev.op = "exportOrder" =>
        /\ exported.attempts <= 1
        /\ IF ev.res = "success"
           THEN /\ DOMAIN exported.result = {"success", "orderId", "filename"}
                /\ exported.result.success
                /\ exported.result.filename.id = exported.result.orderId
                /\ exported.attempts = 1
                /\ exported.last = [kind |-> "order", items |-> items,
                                    total |-> GetTotal(items)]
           ELSE /\ DOMAIN exported.result = {"success", "error"}
                /\ ~exported.result.success
                /\ exported.result.error \in ExportFaults \ {"none"}

\* The download of a two-item order is refused by the browser: one attempt,
\* one failure reported.
C27_Witness ==
    /\ ev.op = "exportOrder" /\ ev.res = "failure"
    /\ Len(items) = 2
    /\ exported.attempts = 1
    /\ exported.result.error = "download"

\* ------------------------------------------------------ App: cart and orders

\* Click on "Add to Cart" next to the detected product:
\* App.addDetectedToCart(0), lines 284-291.
AddDetectedClick ==
    /\ appReady /\ ~MicroPending
    /\ currentDetections # "empty"
    /\ CartAddItem(ProductNamed(currentDetections))
    /\ \E stored \in BOOLEAN : StatsIncrementItemsScanned(stored)
    /\ ev' = Ev("addDetected", currentDetections)
    /\ UNCHANGED <<machineVars, sideVars>>

\* Click on the clear-cart button: the listener of Cart.init (cart.js line 24)
\* and the one of App (app.js lines 345-349) each call Cart.clearCart(); the
\* second finds the cart empty.
ClearCartClick ==
    /\ appReady /\ ~MicroPending
    /\ ~cartView.disabled
    /\ items' = <<>>
    /\ RenderCart(items')
    /\ cartPre' = [items |-> <<>>, arg |-> 0]
    /\ ledger' = [total |-> 0, count |-> 0]
    /\ currentDetections' = "empty"
    /\ ev' = Ev("clearCartClick", "-")
    /\ UNCHANGED <<modelVars, pollerVars, scanning, apiDetects, appReady,
                   continuousScanActive, scanBtnDisabled, continuousBtnDisabled,
                   camVars, tfDefined, videoReady, elapsed, sideVars,
                   itemIdCounter, issued, statsVars>>

\* An order handler that books the revenue before it exports.
OrderBooked_BeforeExport(fault) == TRUE

\* Whether the complete-order handler reaches Stats and Cart: only when
\* exportOrder reported success (line 321).
OrderBooked(fault) == ExportOrderResult(fault, 1).success

\* Stats.incrementOrders() and then Stats.addRevenue(total), lines 322-323:
\* each saves the record it has made.  On a null record the first throws.
OrderStats(total, stored1, stored2) ==
    LET s1 == WithOrder(stats)
        s2 == WithRevenue(s1, total)
    IN  IF statsNull
        THEN /\ UNCHANGED <<stats, statsNull, statsView, storage>>
             /\ StatsNote(stats, "none", FALSE, total)
        ELSE /\ stats.ordersCompleted < MaxOrders
             /\ stats.totalRevenue + total <= MaxRevenue
             /\ stats' = s2
             /\ UNCHANGED statsNull
             /\ storage' = SavedTo(SavedTo(storage, s1, stored1), s2, stored2)
             /\ UpdateDisplay(s2)
             /\ statsHist' = [saved |-> IF stored2 THEN <<s2>>
                                        ELSE IF stored1 THEN <<s1>>
                                        ELSE statsHist.saved,
                              mutated |-> TRUE, write |-> Written(stored2),
                              arg |-> total]

\* The listener of App on the export button, lines 358-371, after the calls
\* that gave e: with no order completed it only alerts.
AppExportListener(e, fault) ==
    IF stats.ordersCompleted = 0
    THEN [e EXCEPT !.result = [success |-> FALSE, error |-> "No orders to export yet!"]]
    ELSE ExportAllOrders(e, fault)

\* Click on the export button: the listener Export.init has registered
\* (export.js line 15, exportAllOrders itself) runs first, then the listener of
\* App.setupExportEvent.  attempts and files count the whole click.
ExportClick(fault1, fault2) ==
    LET e0 == [last |-> exported.last, attempts |-> 0, result |-> NoResult, files |-> 0]
    IN  /\ appReady /\ ~MicroPending
        /\ ~statsNull
        /\ exported' = AppExportListener(ExportAllOrders(e0, fault1), fault2)
        /\ ev' = Ev("exportClick", IF stats.ordersCompleted = 0 THEN "noOrders"
                                   ELSE "orders")
        /\ UNCHANGED <<machineVars, pipeVars, sold, handle, cartVars, statsVars>>

\* A failure branch that empties the cart all the same.
ExportFailedAlert_ClearsCart ==
    /\ CartClearCart
    /\ currentDetections' = "empty"
    /\ UNCHANGED <<sold, statsVars>>

\* The failure branch of the complete-order handler, lines 333-335: an alert.
ExportFailedAlert ==
    UNCHANGED <<currentDetections, sold, cartVars, statsVars>>

\* A handler that completes the order whatever the user answers.
OrderRefused_IgnoresAnswer(orderData, confirmed) == Len(orderData.items) = 0

\* The two early returns of the complete-order handler, lines 302-313: the
\* cart is empty, or the user declines the confirmation.
OrderRefused(orderData, confirmed) == Len(orderData.items) = 0 \/ ~confirmed

\* What the handler met: an empty cart, or the user's answer.
OrderAnswer(orderData, confirmed) ==
    IF Len(orderData.items) = 0 THEN "empty"
    ELSE IF confirmed THEN "confirmed" ELSE "declined"

\* Click on the complete-order button, lines 299-335 (the listener of
\* Cart.init, cart.js line 25, only reads the cart): the order data are taken,
\* the user confirms or not, a continuous scan is stopped, the order is
\* exported and, when that succeeded, counted, booked and cleared.
CompleteOrderClick(confirmed, fault, orderId, stored1, stored2) ==
    LET orderData == GetOrderData(items) IN
    /\ appReady /\ ~MicroPending
    /\ ~cartView.disabled
    /\ IF OrderRefused(orderData, confirmed)
       THEN /\ ev' = [Ev("completeOrder",
                         IF Len(orderData.items) = 0 THEN "empty" ELSE "declined")
                         EXCEPT !.pre = OrderAnswer(orderData, confirmed)]
            /\ UNCHANGED <<continuousScanActive, pollerVars, currentDetections,
                           exported, sold, cartVars, statsVars>>
       ELSE /\ StopContinuousScan
            /\ ExportOrder(orderData, fault, orderId)
            /\ IF OrderBooked(fault)
               THEN /\ OrderStats(orderData.total, stored1, stored2)
                    /\ IF statsNull
                       THEN /\ ev' = [Ev("completeOrder", "threw") EXCEPT
                                         !.pre = OrderAnswer(orderData, confirmed)]
                            /\ UNCHANGED <<currentDetections, sold, cartVars>>
                       ELSE /\ CartClearCart
                            /\ currentDetections' = "empty"
                            /\ sold' = [n |-> sold.n + 1,
                                        sum |-> sold.sum + orderData.total]
                            /\ ev' = [Ev("completeOrder",
                                         IF fault = "none" THEN "completed"
                                         ELSE "bookedUnexported") EXCEPT
                                         !.pre = OrderAnswer(orderData, confirmed)]
               ELSE /\ ev' = [Ev("completeOrder", "exportFailed") EXCEPT
                                         !.pre = OrderAnswer(orderData, confirmed)]
                    /\ ExportFailedAlert
    /\ UNCHANGED <<modelVars, scanning, apiDetects, appReady, scanBtnDisabled,
                   continuousBtnDisabled, camVars, tfDefined, videoReady, elapsed,
                   pipeVars, handle>>

ShopClicks ==
    \/ AppInit
    \/ CameraStartClick
    \/ CameraStopClick
    \/ ScanClick
    \/ AddDetectedClick
    \/ \E i \in 1..Len(items) : RemoveItem(items[i].id)
    \/ ClearCartClick
    \/ \E confirmed \in BOOLEAN, fault \in ExportFaults :
           \E stored1 \in (IF confirmed /\ fault = "none" THEN BOOLEAN ELSE {TRUE}),
              stored2 \in (IF confirmed /\ fault = "none" THEN BOOLEAN ELSE {TRUE}) :
               \* the order id, a timestamp, grows from order to order
               CompleteOrderClick(confirmed, fault, sold.n + 1, stored1, stored2)

ShopSteps ==
    \/ \E o \in LoadOwners : LoadResolve(o)
    \/ \E o \in LoadOwners : LoadReject(o)
    \/ \E out \in Outcomes : ScanResolve("app", out)

\* The application as a cashier drives it: camera, single scans, cart and
\* orders, with the continuous scan left alone.
ShopNext == ShopClicks \/ CameraSteps \/ ShopSteps

ShopSpec == Init /\ [][ShopNext]_vars

\* C21: totalRevenue never decreases and changes only when an order is
\* completed, by exactly the total of that order; after N completed orders it
\* is the sum of their totals and ordersCompleted is N.
C21_RevenueIsSales ==
    /\ [](stats.totalRevenue = sold.sum /\ stats.ordersCompleted = sold.n)
    /\ [][/\ stats'.totalRevenue >= stats.totalRevenue
          /\ stats'.totalRevenue # stats.totalRevenue =>
                 /\ ev'.op = "completeOrder" /\ ev'.res = "completed"
                 /\ stats'.totalRevenue = stats.totalRevenue + GetTotal(items)
          /\ stats'.ordersCompleted # stats.ordersCompleted =>
                 ev'.op = "completeOrder" /\ ev'.res = "completed"]_vars

\* Two orders are completed, one of 100 and one of 30.
C21_Witness ==
    /\ ev.op = "completeOrder" /\ ev.res = "completed"
    /\ sold.n = 2
    /\ stats.totalRevenue = 130
    /\ stats.ordersCompleted = 2

\* C25: a confirmed order of a non-empty cart whose export succeeds raises
\* ordersCompleted by one and totalRevenue by the cart's total as it was when
\* the handler began, empties the cart and leaves itemsScanned alone.  The
\* export comes first (a failed export changes neither Stats nor Cart), then
\* incrementOrders, then addRevenue (a failed second write leaves in storage
\* what the first has written), then clearCart.
C25_OrderCompletion ==
    [][ev'.op = "completeOrder" /\ ev'.res \notin {"empty", "declined"} =>
           IF exported'.result.success
           THEN /\ ev'.res = "completed"
                /\ items # <<>>
                /\ exported'.last = [kind |-> "order", items |-> items,
                                     total |-> GetTotal(items)]
                /\ stats'.ordersCompleted = stats.ordersCompleted + 1
                /\ stats'.totalRevenue = stats.totalRevenue + GetTotal(items)
                /\ stats'.itemsScanned = stats.itemsScanned
                /\ statsView' = stats'
                /\ statsHist'.write = "failed" =>
                       storage' \in {storage, <<JsonStringify(WithOrder(stats))>>}
                /\ statsHist'.write = "ok" => storage' = <<JsonStringify(stats')>>
                /\ items' = <<>>
                /\ cartView'.count = 0 /\ cartView'.total = 0
           ELSE /\ ev'.res = "exportFailed"
                /\ UNCHANGED <<stats, storage, items>>]_vars

\* An order of a coffee and a water is completed: one order, 130 of revenue,
\* two scans counted, the cart empty.
C25_Witness ==
    /\ ev.op = "completeOrder" /\ ev.res = "completed"
    /\ exported.last.total = 130 /\ Len(exported.last.items) = 2
    /\ stats = [itemsScanned |-> 2, ordersCompleted |-> 1, totalRevenue |-> 130]
    /\ items = <<>>

\* C28: a scan that detects a product puts exactly that product into the cart,
\* as one new item, and counts one scanned item; a scan that detects nothing,
\* fails or is refused changes neither cart nor stats.  itemsScanned is the
\* number of items the application has put into the cart, by scan or by "Add
\* to Cart", and changes in no other way.
C28_ScanAddsOne ==
    /\ [](stats.itemsScanned = Len(issued))
    /\ [][/\ ev'.op = "scanDone" /\ ev'.res \notin {"error", "none"} =>
                 /\ items' = Append(items, items'[Len(items')])
                 /\ \E i \in 1..Len(PRODUCTS) :
                        /\ PRODUCTS[i].nameEn = ev'.res
                        /\ items'[Len(items')].productId = PRODUCTS[i].id
                        /\ items'[Len(items')].price = PRODUCTS[i].price
                 /\ stats' = [stats EXCEPT !.itemsScanned = @ + 1]
          /\ \/ ev'.op = "scanDone" /\ ev'.res \in {"error", "none"}
             \/ ev'.op = "scanClick"
             => UNCHANGED <<items, stats>>
          /\ stats'.itemsScanned # stats.itemsScanned \/ Len(items') > Len(items) =>
                 /\ ev'.op \in {"scanDone", "addDetected"}
                 /\ Len(items') = Len(items) + 1
                 /\ stats'.itemsScanned = stats.itemsScanned + 1]_vars

\* A second scan detects a water: it is the cart's second item, and two scans
\* are counted.
C28_Witness ==
    /\ ev.op = "scanDone" /\ ev.res = "Water"
    /\ Len(items) = 2
    /\ items[2].productId = 2
    /\ stats.itemsScanned = 2

\* ------------------------------------------------------ Cart: what callers hold
\* An item object is known by its id.  A caller keeps what a Cart function has
\* returned: the function, whether the list it holds is the Cart's own array,
\* and the item objects it can reach.

\* Whether the items reached through a returned value are the Cart's own
\* objects: addItem returns the object it has pushed (lines 46 and 51),
\* getItems copies the array and not its elements (line 99), getOrderData
\* hands out getItems() (line 108).
ItemsShared(from) == from \in {"addItem", "getItems", "getOrderData"}

\* Whether a returned list is the Cart's own array: getItems builds a new one
\* (line 99).
ListShared(from) == FALSE

\* The caller keeps the item addItem returns.
AddItemHeld(product) ==
    /\ Len(issued) < MaxHeld
    /\ CartAddItem(product)
    /\ handle' = [from |-> "addItem", ids |-> <<itemIdCounter'>>]
    /\ ev' = Ev("addItem", "-")
    /\ UNCHANGED <<machineVars, pipeVars, exported, sold, statsVars>>

\* The caller keeps the list getItems() returns, or the items of the order
\* data getOrderData() returns.
GetItemsHeld(from) ==
    LET list == IF from = "getItems" THEN GetItems(items)
                ELSE GetOrderData(items).items
    IN  /\ handle' = [from |-> from, ids |-> [i \in 1..Len(list) |-> list[i].id]]
        /\ cartPre' = [items |-> items, arg |-> 0]
        /\ ev' = Ev(from, "-")
        /\ UNCHANGED <<machineVars, pipeVars, exported, sold, statsVars, items,
                       itemIdCounter, cartView, ledger, issued>>

\* The caller assigns a price to the k-th item it holds: the Cart's item of
\* that identity, when the object is shared and still in the cart.
CallerSetsPrice(k, price) ==
    LET id == handle.ids[k] IN
    /\ k \in 1..Len(handle.ids)
    /\ items' = [i \in 1..Len(items) |->
                    IF ItemsShared(handle.from) /\ items[i].id = id
                    THEN [items[i] EXCEPT !.price = price]
                    ELSE items[i]]
    /\ cartPre' = [items |-> items, arg |-> id]
    /\ ev' = Ev("callerSetsPrice", "-")
    /\ UNCHANGED <<machineVars, sideVars, itemIdCounter, cartView, ledger, issued,
                   statsVars>>

\* The caller pushes an object of its own, known to it as 0, onto the list it
\* holds.
CallerAppends ==
    /\ handle.from \in {"getItems", "getOrderData"}
    /\ Len(handle.ids) <= MaxHeld
    /\ handle' = [handle EXCEPT !.ids = Append(@, 0)]
    /\ items' = IF ListShared(handle.from)
                THEN Append(items, [id |-> 0, productId |-> 0, nameEn |-> "-", price |-> 0])
                ELSE items
    /\ cartPre' = [items |-> items, arg |-> 0]
    /\ ev' = Ev("callerAppends", "-")
    /\ UNCHANGED <<machineVars, pipeVars, exported, sold, itemIdCounter, cartView,
                   ledger, issued, statsVars>>

\* The prices a caller writes.
CallerPrices == {0}

AliasNext ==
    \/ \E i \in 1..Len(PRODUCTS) : AddItemHeld(PRODUCTS[i])
    \/ \E from \in {"getItems", "getOrderData"} : GetItemsHeld(from)
    \/ \E i \in 1..Len(items) : RemoveItem(items[i].id)
    \/ ClearCart
    \/ \E k \in 1..Len(handle.ids), price \in CallerPrices : CallerSetsPrice(k, price)
    \/ CallerAppends

\* The Cart under a caller that keeps and changes what it is handed.
AliasSpec == Init /\ [][AliasNext]_vars

\* C29: what a caller does to a value returned by addItem, getItems or
\* getOrderData (a price assigned to an item, an object pushed onto the list)
\* changes neither the cart's items nor getTotal().
C29_NoAliasing ==
    ev.op \in {"callerSetsPrice", "callerAppends"} =>
        /\ items = cartPre.items
        /\ GetTotal(items) = GetTotal(cartPre.items)

\* C30: a load begins only in a call made by the caller (loadModel or
\* scanProducts), never in a timer or in the resumption of a promise; after a
\* failed load the module is neither loaded nor loading, and a loadModel call
\* is taken up again: it starts a new load when TensorFlow.js is there.
C30_RetryOnlyOnCall ==
    /\ [](loadState = "failed" =>
              /\ ~modelLoaded /\ ~modelLoading /\ NumLoads = 0
              /\ LoadModelEntry(modelLoaded, modelLoading, tfDefined) =
                     IF tfDefined THEN "load" ELSE "threw")
    /\ [][/\ \/ NumLoads' > NumLoads
             \/ loadState' = "failed" /\ loadState # "failed" /\ NumLoads' = NumLoads
             => ev'.op \in {"loadModel", "scanProducts"}
          /\ ev'.op = "loadReject" => loadState' = "failed"
          /\ ev'.op = "loadResolve" /\ NumLoads' < NumLoads =>
                 modelLoaded']_vars

\* A load has failed, a later call has started another, and that one has made
\* the model ready.
C30_Witness ==
    /\ loadFailed
    /\ ev.op = "loadResolve"
    /\ modelLoaded /\ ~modelLoading

\* ------------------------------------------------------ Detection: the poller goes on

\* The event loop takes the next timer once the microtask queue is empty, and
\* every task ends: the queue of microtasks drains again and again, however
\* many loops a caller starts within one task.
TasksEnd == []<>~MicroPending

\* Timers expire and classifications settle, however often a microtask of
\* another loop comes first; nothing obliges a caller to call.
PollLive ==
    /\ Spec
    /\ \A l \in LoopIds : SF_vars(TimerFire(l))
    /\ \A l \in LoopIds : WF_vars(\E out \in Outcomes : CycleResolve(l, out))
    /\ TasksEnd

\* C31: a poller cycle whose inference fails, or whose frame is not ready,
\* does not end the polling: the stored callback gets the empty list and the
\* next cycle is put on a timer; a timer ends only by expiring into the next
\* cycle or by a stop call that clears it, and it does end.
C31_FailureKeepsPolling ==
    /\ [][(ev'.op = "cycle" /\ ev'.out \in {"error", "noframe"}) =>
             /\ ev'.res = "empty"
             /\ ev'.sched
             /\ loops'[continuousDetectionId'].pc = "timer"
             /\ loops[continuousDetectionId'].pc \in {"classify", "micro"}
             /\ continuousDetectionCallback # "null" =>
                    ev'.cb = continuousDetectionCallback]_vars
    /\ [][\A l \in LoopIds :
             (loops[l].pc = "timer" /\ loops'[l].pc # "timer") =>
                 \/ ev'.op = "timer" /\ loops'[l].pc \in {"classify", "micro"}
                 \/ ev'.op = "stop" /\ ev'.res = "cleared" /\ loops'[l].pc = "free"]_vars
    /\ \A l \in LoopIds : [](loops[l].pc = "timer" => <>(loops[l].pc # "timer"))

\* A cycle whose inference failed has handed the empty list to the callback
\* and the next cycle is on its timer.
C31_Witness ==
    /\ ev.op = "cycle" /\ ev.out = "error"
    /\ ev.cb # "null" /\ ev.res = "empty"
    /\ ev.pre = "later"
    /\ loops[continuousDetectionId].pc = "timer"

\* C32: when exportOrder reports a failure during the completion of an order,
\* the cart and the stats are left as they were: no item is removed,
\* ordersCompleted and totalRevenue keep their values, in memory, on the page
\* and in storage.
C32_FailedExportChangesNothing ==
    [][(/\ ev'.op = "completeOrder"
        /\ ev'.res \notin {"empty", "declined"}
        /\ ~exported'.result.success)
       => /\ items' = items /\ items # <<>>
          /\ cartView' = cartView
          /\ stats' = stats
          /\ statsView' = statsView
          /\ storage' = storage
          /\ sold' = sold]_vars

\* After one completed order, the export of a second one fails: the cart still
\* holds its item and the stats are those of the first order.
C32_Witness ==
    /\ ev.op = "completeOrder" /\ ev.res = "exportFailed"
    /\ ~exported.result.success
    /\ Len(items) = 1
    /\ sold.n = 1
    /\ stats.ordersCompleted = 1 /\ stats.totalRevenue = sold.sum

\* ------------------------------------------------------ App: the till, scanning

TillNext ==
    \/ AppInit
    \/ CameraStartClick
    \/ \E w \in Listeners : GumResolve(w)
    \/ VideoCanPlay
    \/ \E w \in Listeners : PlayResolve(w)
    \/ \E o \in LoadOwners : LoadResolve(o)
    \/ ContinuousScanClick
    \/ ScanClick
    \/ \E out \in AppOutcomes : ScanResolve("app", out)
    \/ \E l \in LoopIds, out \in AppOutcomes : CycleResolve(l, out)
    \/ \E l \in LoopIds : TimerFire(l)
    \/ AddDetectedClick
    \/ \E confirmed \in BOOLEAN, fault \in {"none", "download"} :
           CompleteOrderClick(confirmed, fault, sold.n + 1, TRUE, TRUE)

\* A first visit, with the cart buttons as the markup has them.
TillStart == Memory /\ storage = <<>>

\* The application at the till: the camera granted and left running, the model
\* arriving, single and continuous scans, "Add to Cart" and orders.
TillSpec == TillStart /\ [][TillNext]_vars

\* C33: a click on the complete-order button that meets an empty cart, or
\* whose confirmation the user declines, changes nothing: the cart, the stats,
\* the continuous scan and its poller, the detections and the exported files
\* are as they were.
C33_RefusedOrderChangesNothing ==
    [][(ev'.op = "completeOrder" /\ ev'.pre \in {"empty", "declined"}) =>
           /\ ev'.res = ev'.pre
           /\ UNCHANGED <<items, itemIdCounter, cartView>>
           /\ UNCHANGED <<stats, statsView, storage>>
           /\ UNCHANGED <<continuousScanActive, continuousDetectionId,
                          continuousDetectionCallback, loops, currentDetections>>
           /\ UNCHANGED <<exported, sold>>]_vars

\* The user declines while a continuous scan is running with an item in the
\* cart: the scan goes on and the item is still there.
C33_Witness ==
    /\ ev.op = "completeOrder" /\ ev.pre = "declined"
    /\ continuousScanActive /\ continuousDetectionCallback = "app"
    /\ Len(items) = 1
    /\ stats.ordersCompleted = 0

\* C35: no callback invocation of the poller changes the cart or the stats,
\* however many cycles report a detection; an item enters the cart, and
\* itemsScanned moves, only when a single scan settles or "Add to Cart" is
\* clicked.
C35_PollerOnlyDisplays ==
    [][/\ ev'.op = "cycle" =>
              /\ UNCHANGED <<items, itemIdCounter, cartView>>
              /\ UNCHANGED <<stats, statsView, storage>>
       /\ (Len(items') > Len(items) \/ stats'.itemsScanned # stats.itemsScanned) =>
              ev'.op \in {"scanDone", "addDetected"}]_vars

\* A later cycle of the continuous scan reports a coffee to App's callback;
\* the cart holds the one item the user has added and nothing more.
C35_Witness ==
    /\ ev.op = "cycle" /\ ev.cb = "app" /\ ev.res = "Coffee" /\ ev.pre = "later"
    /\ currentDetections = "Coffee"
    /\ Len(items) = 1 /\ stats.itemsScanned = 1

\* C39: after an order is completed, or the camera is stopped, the list of
\* detections is empty and stays empty until the user starts a new scan; here
\* for the step that follows: unless it is the user's click on a scan button,
\* it leaves the list empty, so that no cycle of the poller begun before
\* brings a detection back.
C39_ClearedStaysEmpty ==
    [][(/\ \/ ev.op = "cameraStopClick"
           \/ ev.op = "completeOrder" /\ ev.res = "completed"
        /\ ev'.op \notin {"scanClick", "continuousScanClick"})
       => currentDetections' = "empty"]_vars

\* ------------------------------------------------------ App: the export button

ReportNext ==
    \/ AppInit
    \/ \E stored \in BOOLEAN : IncrementOrders(stored)
    \/ \E stored \in BOOLEAN : ResetStats(stored)
    \/ \E fault1 \in ExportFaults, fault2 \in ExportFaults : ExportClick(fault1, fault2)

\* The export button on a page whose counters are moved by the application.
ReportSpec == Init /\ [][ReportNext]_vars

\* C34: one click on the export button hands the browser no file when
\* ordersCompleted is 0 and exactly one file, of the counters, when
\* ordersCompleted > 0 and nothing fails, with every listener of the button
\* taken into account.
C34_OneClickOneFile ==
    ev.op = "exportClick" =>
        IF stats.ordersCompleted = 0
        THEN exported.files = 0 /\ exported.attempts = 0
        ELSE /\ exported.files <= 1 /\ exported.attempts <= 1
             /\ exported.result.success => exported.files = 1

\* ------------------------------------------------------ App: scanning, buttons, camera

\* C36: in every state of the application, continuous scanning being active
\* (continuousScanActive) implies that the camera is running and the model is
\* loaded: it is started only with both, and the stop-camera click ends it in
\* the same step.
C36_ScanningNeedsCameraAndModel ==
    /\ [](continuousScanActive => isActive /\ modelLoaded)
    /\ [][/\ ~continuousScanActive /\ continuousScanActive' =>
                 isActive /\ modelLoaded /\ ev'.op = "continuousScanClick"
          /\ ev'.op = "cameraStopClick" => ~continuousScanActive' /\ ~isActive']_vars

\* The camera is stopped while a continuous scan is active, and the scan is over.
C36_Witness ==
    /\ ev.op = "cameraStopClick"
    /\ phase = "stopped"
    /\ ~continuousScanActive /\ ~isActive /\ modelLoaded

\* The camera buttons under the user's clicks, with the streams followed.
CameraNext ==
    \/ AppInit
    \/ CameraStartClick
    \/ \E w \in Listeners : StartCameraStream(w)
    \/ \E w \in Listeners : GumReject(w)
    \/ VideoCanPlay
    \/ \E w \in Listeners : PlayResolve(w)
    \/ \E w \in Listeners : PlayReject(w)
    \/ StopCameraStream

CameraSpec == Init /\ [][CameraNext]_vars

\* The streams handed out whose tracks run.
LiveStreams == {i \in 1..Len(tracks) : tracks[i]}

\* C38: at most one media stream is live, every stream a startCamera call
\* has obtained is the one the module holds or has had its tracks stopped,
\* and after stopCamera none is left running; both listeners of the start
\* button and startCamera calls that overlap are taken into account.
C38_OneLiveStream ==
    /\ Cardinality(LiveStreams) <= 1
    /\ \A i \in LiveStreams : stream = i
    /\ ev.op = "cameraStopClick" => LiveStreams = {}

\* No single scan of the application is in progress.
NoScanInProgress == scanning["app"] = 0 /\ loads["scanApp"] = 0

\* C37: outside a scan in progress (and a camera start in progress), the scan
\* button and the continuous-scan button are enabled exactly when the camera
\* is active and the model is loaded, whatever the order of camera start,
\* camera stop, model load success, model load failure and scan end.
C37_ButtonsFollowCameraAndModel ==
    (/\ appReady /\ NoScanInProgress
     /\ \A w \in Listeners : camOps[w] = "idle")
    => /\ scanBtnDisabled = ~(isActive /\ modelLoaded)
       /\ continuousBtnDisabled = ~(isActive /\ modelLoaded)

====
